---- MODULE Spec2Model ----
(***************************************************************************)
(* The RPC transport of the Shellfish toolkit, its composite actions and   *)
(* its file storage:                                                       *)
(*   - the frame codec: RpcSession.postMessage (encoder) and the read loop *)
(*     of MessageSocket.connect (decoder);                                 *)
(*   - the client side, RpcProxy;                                          *)
(*   - the server side, RpcSession, with its heartbeat and expiry loops;   *)
(*   - SequentialAction and ParallelAction;                                *)
(*   - FileStorage.                                                        *)
(* Each part has its own specification over the shared variables.          *)
(***************************************************************************)
EXTENDS Integers, Sequences, FiniteSets, TLC

VARIABLES
    \* ---- frame codec (one reverse channel and the socket reading it) ----
    frames,        \* messages handed to RpcSession.postMessage, in order
    stream,        \* bytes written to the reverse channel and not yet read
    streamEnded,   \* the reverse channel was ended by the server
    value,         \* decoder: current chunk, <<>> for null, <<chunk>> otherwise
    dataOffset,    \* decoder: read cursor in the current chunk
    buffer,        \* decoder: message buffer, <<>> for null, <<bytes>> otherwise
    bufferOffset,  \* decoder: write cursor in the message buffer
    loopState,     \* decoder: "reading", or "ended" once the loop was left
    handled,       \* messages passed to the socket's handler, in order
    dropped,       \* completed frames whose JSON.parse threw, so far
    \* ---- client side: one RpcProxy and the MessageSockets it created ----
    idCounter,     \* module-level id counter of the client module
    socket,        \* priv.socket: <<>> for null, <<socketId>> otherwise
    socketState,   \* per MessageSocket created: state of its fetch/read loop
    clientId,      \* priv.clientId, "" while unknown
    callMap,       \* priv.callMap: callId -> pending call
    callbackMap,   \* priv.callbackMap: callbackId -> local function
    callbacks,     \* priv.callbacks: callback ids handed out
    messageQueue,  \* priv.messageQueue: queued call ids
    postedCalls,   \* call messages POSTed so far, in order
    sent,          \* messages POSTed through MessageSocket.postMessage in this step
    promises,      \* the promises returned to the application, in issue order
    localProxies,  \* proxy objects rebuilt by processOutParameters
    invoked,       \* the local callback function invoked in this step, if any
    received,      \* the message the proxy's handler ran on in this step
    \* ---- server side: one RpcSession ----
    now,           \* Date.now(), in ms since the session was constructed
    clients,       \* priv.clients: clientId -> [proxies, expires]
    methods,       \* priv.methods: method name -> implementation
    sessionIdCounter, \* module-level id counter of the server module
    uidCounter,    \* ids handed out by core.generateUid
    timers,        \* pending named waits: name -> due times
    removed,       \* destroyed connections: how, and the proxies they owned
    closures,      \* callback closures handed to registered methods
    pendingResults,\* promises returned by registered methods, not yet settled
    wrote,         \* frames written to reverse channels in this step
    event,         \* what the session ran in this step
    history,       \* per connection: when it opened, whether it ever sent a
                   \* heartbeat POST, and how many heartbeat frames (0, 1, 2 or
                   \* more) it got since the last one
    \* ---- the transport between the two ----
    delivered,     \* how many of the client's call POSTs the endpoint has got
    \* ---- the composite actions and their children ----
    sequential,    \* one SequentialAction: its fields and where its start() is
    parallel,      \* one ParallelAction: its fields and where its start() is
    children,      \* the child actions: child -> [enabled, status]
    \* ---- one FileStorage, its filesystem and its reads in flight ----
    storage

codecVars == <<frames, stream, streamEnded, value, dataOffset, buffer,
               bufferOffset, loopState, handled, dropped>>

clientVars == <<idCounter, socket, socketState, clientId, callMap,
                callbackMap, callbacks, messageQueue, postedCalls, sent,
                promises, localProxies, invoked, received>>

serverVars == <<now, clients, methods, sessionIdCounter, uidCounter, timers,
                removed, closures, pendingResults, wrote, event, history>>

netVars == <<delivered>>

actionVars == <<sequential, parallel, children>>

storageVars == <<storage>>

vars == <<codecVars, clientVars, serverVars, netVars, actionVars, storageVars>>

----------------------------------------------------------------------------
(* Generic helpers *)

Min(a, b) == IF a < b THEN a ELSE b

Max(a, b) == IF a > b THEN a ELSE b

Range(s) == {s[i] : i \in 1..Len(s)}

Zeros(n) == [i \in 1..n |-> 0]

----------------------------------------------------------------------------
(* JavaScript values that cross the RPC boundary *)

Undefined == [js |-> "undefined"]

Num(n) == [js |-> "number", n |-> n]

Str(chars) == [js |-> "string", s |-> chars]

Fn(f) == [js |-> "function", f |-> f]

\* null: typeof null is "object".
Null == [js |-> "object", null |-> TRUE]

IsNull(v) == v.js = "object" /\ "null" \in DOMAIN v

\* A plain object, { a: 1 }.
PlainObj == [js |-> "object", a |-> Num(1)]

\* { type: "callback", clientId, safeCallback }
CallbackObj(cid, id) ==
    [js |-> "object", type |-> "callback", clientId |-> cid, safeCallback |-> id]

\* { type: "proxy", instance, methods }
ProxyObj(i, M) ==
    [js |-> "object", type |-> "proxy", instance |-> i, methods |-> M]

\* The local stand-in built for a proxy descriptor: one function per method.
LocalProxy(i, M) == [js |-> "object", standInFor |-> i, members |-> M]

IsObjectOfType(v, t) == v.js = "object" /\ "type" \in DOMAIN v /\ v.type = t

\* Strings are sequences of characters; number + string is the decimal
\* numeral followed by the string.
Digit(d) == <<"0", "1", "2", "3", "4", "5", "6", "7", "8", "9">>[d + 1]

RECURSIVE Numeral(_)
Numeral(n) == IF n < 10 THEN <<Digit(n)>> ELSE Numeral(n \div 10) \o <<Digit(n % 10)>>

StartsWith(str, prefix) ==
    Len(str) >= Len(prefix) /\ SubSeq(str, 1, Len(prefix)) = prefix

----------------------------------------------------------------------------
(* Frame codec *)

\* Longest run of messages written to one reverse channel.
MaxFrames == 2

\* JSON.stringify + TextEncoder.encode of the messages the session writes,
\* as UTF-8 bytes.
HeartbeatMsg == [type |-> "heartbeat"]

ResultMsg == [type |-> "methodResult", callId |-> 1, value |-> Num(2)]

ExitMsg == [type |-> "exit"]

CodecMessages == {HeartbeatMsg, ResultMsg}

\* {"type":"heartbeat"}
HeartbeatJson ==
    <<123, 34, 116, 121, 112, 101, 34, 58, 34, 104, 101, 97, 114, 116, 98,
      101, 97, 116, 34, 125>>

\* {"type":"methodResult","callId":1,"value":2}
ResultJson ==
    <<123, 34, 116, 121, 112, 101, 34, 58, 34, 109, 101, 116, 104, 111, 100,
      82, 101, 115, 117, 108, 116, 34, 44, 34, 99, 97, 108, 108, 73, 100, 34,
      58, 49, 44, 34, 118, 97, 108, 117, 101, 34, 58, 50, 125>>

\* The characters of the strings that occur in frames.
Chars(str) ==
    CASE str = "type" -> <<"t", "y", "p", "e">>
      [] str = "ready" -> <<"r", "e", "a", "d", "y">>
      [] str = "heartbeat" -> <<"h", "e", "a", "r", "t", "b", "e", "a", "t">>
      [] str = "callback" -> <<"c", "a", "l", "l", "b", "a", "c", "k">>
      [] str = "methodResult" -> <<"m", "e", "t", "h", "o", "d", "R", "e", "s", "u", "l", "t">>
      [] str = "methodError" -> <<"m", "e", "t", "h", "o", "d", "E", "r", "r", "o", "r">>
      [] str = "clientId" -> <<"c", "l", "i", "e", "n", "t", "I", "d">>
      [] str = "sessionId" -> <<"s", "e", "s", "s", "i", "o", "n", "I", "d">>
      [] str = "callId" -> <<"c", "a", "l", "l", "I", "d">>
      [] str = "value" -> <<"v", "a", "l", "u", "e">>
      [] str = "parameters" -> <<"p", "a", "r", "a", "m", "e", "t", "e", "r", "s">>
      [] str = "c0" -> <<"c", "0">>
      [] str = "c1" -> <<"c", "1">>
      [] str = "session" -> <<"s", "e", "s", "s", "i", "o", "n">>
      [] str = "No such method to call: sum" ->
             <<"N", "o", " ", "s", "u", "c", "h", " ", "m", "e", "t", "h", "o", "d", " ",
               "t", "o", " ", "c", "a", "l", "l", ":", " ", "s", "u", "m">>

\* The UTF-8 code of a character (letters, digits and JSON punctuation).
CharCode ==
    (" " :> 32) @@ ("\"" :> 34) @@ ("," :> 44) @@ ("-" :> 45) @@ ("." :> 46) @@
    ("0" :> 48) @@ ("1" :> 49) @@ ("2" :> 50) @@ ("3" :> 51) @@ ("4" :> 52) @@
    ("5" :> 53) @@ ("6" :> 54) @@ ("7" :> 55) @@ ("8" :> 56) @@ ("9" :> 57) @@
    (":" :> 58) @@ ("A" :> 65) @@ ("B" :> 66) @@ ("C" :> 67) @@ ("D" :> 68) @@
    ("E" :> 69) @@ ("F" :> 70) @@ ("G" :> 71) @@ ("H" :> 72) @@ ("I" :> 73) @@
    ("J" :> 74) @@ ("K" :> 75) @@ ("L" :> 76) @@ ("M" :> 77) @@ ("N" :> 78) @@
    ("O" :> 79) @@ ("P" :> 80) @@ ("Q" :> 81) @@ ("R" :> 82) @@ ("S" :> 83) @@
    ("T" :> 84) @@ ("U" :> 85) @@ ("V" :> 86) @@ ("W" :> 87) @@ ("X" :> 88) @@
    ("Y" :> 89) @@ ("Z" :> 90) @@ ("[" :> 91) @@ ("]" :> 93) @@ ("_" :> 95) @@
    ("a" :> 97) @@ ("b" :> 98) @@ ("c" :> 99) @@ ("d" :> 100) @@ ("e" :> 101) @@
    ("f" :> 102) @@ ("g" :> 103) @@ ("h" :> 104) @@ ("i" :> 105) @@ ("j" :> 106) @@
    ("k" :> 107) @@ ("l" :> 108) @@ ("m" :> 109) @@ ("n" :> 110) @@ ("o" :> 111) @@
    ("p" :> 112) @@ ("q" :> 113) @@ ("r" :> 114) @@ ("s" :> 115) @@ ("t" :> 116) @@
    ("u" :> 117) @@ ("v" :> 118) @@ ("w" :> 119) @@ ("x" :> 120) @@ ("y" :> 121) @@
    ("z" :> 122) @@ ("{" :> 123) @@ ("}" :> 125)

\* TextEncoder.encode
Utf8(text) == [i \in 1..Len(text) |-> CharCode[text[i]]]

Quoted(text) == <<"\"">> \o text \o <<"\"">>

Member(key, text) == Quoted(Chars(key)) \o <<":">> \o text

\* JSON.stringify of a value.
JsonValue(v) ==
    IF v.js = "number" THEN Numeral(v.n)
    ELSE IF v.js = "string" THEN Quoted(v.s)
    ELSE Chars("null")

RECURSIVE JsonList(_, _)
JsonList(values, i) ==
    IF i > Len(values) THEN <<>>
    ELSE (IF i > 1 THEN <<",">> ELSE <<>>) \o JsonValue(values[i]) \o JsonList(values, i + 1)

\* JSON.stringify of a frame the session writes: the members in the order of
\* the object literal.
JsonText(m) ==
    <<"{">> \o Member("type", Quoted(Chars(m.type))) \o
    (IF m.type = "ready"
     THEN <<",">> \o Member("clientId", Quoted(Chars(m.clientId))) \o
          <<",">> \o Member("sessionId", Quoted(Chars(m.sessionId)))
     ELSE IF m.type = "callback"
     THEN <<",">> \o Member("callback", Numeral(m.callback)) \o
          <<",">> \o Member("parameters", <<"[">> \o JsonList(m.parameters, 1) \o <<"]">>)
     ELSE IF m.type \in {"methodResult", "methodError"}
     THEN <<",">> \o Member("callId", Numeral(m.callId)) \o
          <<",">> \o Member("value", JsonValue(m.value))
     ELSE <<>>) \o
    <<"}">>

JsonStringify(m) ==
    IF m = HeartbeatMsg THEN HeartbeatJson
    ELSE IF m = ResultMsg THEN ResultJson
    ELSE Utf8(JsonText(m))

\* The messages whose JSON text the decoder can meet: those of the codec
\* scenarios and the frames a session writes to its first connection.
DecodableMessages ==
    CodecMessages
    \cup {[type |-> "ready", clientId |-> "c0", sessionId |-> "session"]}
    \cup {[type |-> "callback", callback |-> 1, parameters |-> <<Num(n)>>] : n \in 1..9}
    \cup {[type |-> "methodResult", callId |-> k, value |-> Num(3)] : k \in 1..2}
    \cup {[type |-> "methodError", callId |-> k,
            value |-> Str(Chars("No such method to call: sum"))] : k \in 1..2}

DecodableJson == [m \in DecodableMessages |-> JsonStringify(m)]

\* JSON.parse of a decoded buffer: the message, or a SyntaxError.
JsonParse(bytes) ==
    IF \E m \in DecodableMessages : DecodableJson[m] = bytes
    THEN [ok |-> TRUE, message |-> CHOOSE m \in DecodableMessages : DecodableJson[m] = bytes]
    ELSE [ok |-> FALSE, message |-> ExitMsg]

\* The Uint32Array view of the first four bytes of the frame, host byte order
\* (little-endian).
Uint32Bytes(size) ==
    << size % 256, (size \div 256) % 256, (size \div 65536) % 256,
       (size \div 16777216) % 256 >>

\* RpcSession.postMessage: the bytes written for one message.
EncodeFrame(m) ==
    LET data == JsonStringify(m)
    IN  Uint32Bytes(Len(data)) \o data

\* value[i] of a Uint8Array, 0-based; -1 stands for undefined.
ByteAt(chunk, i) == IF i < Len(chunk) THEN chunk[i + 1] ELSE -1

\* x << k for a byte x on JS numbers: undefined converts to 0 and the result
\* is a signed 32-bit integer, so a byte of 128 or more shifted by 24 is
\* negative.
ShiftLeft(x, k) ==
    LET b == IF x < 0 THEN 0 ELSE x
    IN  IF b * (2 ^ (k - 8)) >= 8388608
        THEN (b * (2 ^ (k - 8)) - 16777216) * 256
        ELSE b * (2 ^ k)

\* One pass of the body of `while (! done)` after the chunk is in `value`.
\* Returns the decoder's registers after the pass, the message handed to the
\* handler (if any) and whether the pass threw.
DecodePass(chunk, offset0, buf0, bufOffset0) ==
    LET needHeader == buf0 = <<>>
        size == ByteAt(chunk, offset0) + ShiftLeft(ByteAt(chunk, offset0 + 1), 8)
                + ShiftLeft(ByteAt(chunk, offset0 + 2), 16)
                + ShiftLeft(ByteAt(chunk, offset0 + 3), 24)
        offset1 == IF needHeader THEN offset0 + 4 ELSE offset0
        \* new ArrayBuffer(size) throws a RangeError for a negative size
        allocThrows == needHeader /\ size < 0
        buf1 == IF needHeader THEN Zeros(Max(size, 0)) ELSE buf0[1]
        bufOffset1 == IF needHeader THEN 0 ELSE bufOffset0
        viewLen == Min(Len(chunk), Len(buf1))
        \* new Uint8Array(value.buffer, dataOffset, length)
        viewThrows == offset1 + viewLen > Len(chunk)
        \* new Uint8Array(buffer, bufferOffset).set(view8)
        setThrows == bufOffset1 + viewLen > Len(buf1)
        threw == allocThrows \/ viewThrows \/ setThrows
        buf2 == [i \in 1..Len(buf1) |->
                    IF i > bufOffset1 /\ i <= bufOffset1 + viewLen
                    THEN chunk[offset1 + (i - bufOffset1)]
                    ELSE buf1[i]]
        bufOffset2 == bufOffset1 + viewLen
        offset2 == offset1 + viewLen
        complete == bufOffset2 = Len(buf1)
    IN  IF threw
        THEN [threw |-> TRUE, dataOffset |-> offset1, buffer |-> <<>>,
              bufferOffset |-> bufOffset1, keep |-> FALSE,
              deliver |-> FALSE, drop |-> FALSE, message |-> ExitMsg]
        ELSE [threw |-> FALSE, dataOffset |-> offset2,
              buffer |-> IF complete THEN <<>> ELSE <<buf2>>,
              bufferOffset |-> bufOffset2,
              keep |-> offset2 # Len(chunk),
              deliver |-> complete /\ JsonParse(buf2).ok,
              drop |-> complete /\ ~JsonParse(buf2).ok,
              message |-> JsonParse(buf2).message]

CodecInit ==
    /\ frames = <<>>
    /\ stream = <<>>
    /\ streamEnded = FALSE
    /\ value = <<>>
    /\ dataOffset = 0
    /\ buffer = <<>>
    /\ bufferOffset = 0
    /\ loopState = "reading"
    /\ handled = <<>>
    /\ dropped = 0

\* RpcSession.postMessage on the connection of this reverse channel.
WriteFrame(m) ==
    /\ ~streamEnded
    /\ Len(frames) < MaxFrames
    /\ frames' = Append(frames, m)
    /\ stream' = stream \o EncodeFrame(m)
    /\ UNCHANGED <<streamEnded, value, dataOffset, buffer, bufferOffset,
                   loopState, handled, dropped>>

\* The server ends the reverse channel (RpcSession.removeClient).
EndStream ==
    /\ ~streamEnded
    /\ streamEnded' = TRUE
    /\ UNCHANGED <<frames, stream, value, dataOffset, buffer, bufferOffset,
                   loopState, handled, dropped>>

\* A pass that forgets the rest of the chunk once it has worked on it.
RunPass_DropsRest(chunk, offset0) ==
    LET r == DecodePass(chunk, offset0, buffer, bufferOffset)
    IN  /\ dataOffset' = r.dataOffset
        /\ buffer' = r.buffer
        /\ bufferOffset' = r.bufferOffset
        /\ value' = <<>>
        /\ loopState' = IF r.threw THEN "ended" ELSE "reading"
        /\ handled' = IF r.threw THEN Append(handled, ExitMsg)
                      ELSE IF r.deliver THEN Append(handled, r.message)
                      ELSE handled
        /\ dropped' = IF r.drop THEN dropped + 1 ELSE dropped

\* The pass of the loop once the chunk to work on is known.
RunPass(chunk, offset0) ==
    LET r == DecodePass(chunk, offset0, buffer, bufferOffset)
    IN  /\ dataOffset' = r.dataOffset
        /\ buffer' = r.buffer
        /\ bufferOffset' = r.bufferOffset
        /\ value' = IF r.keep /\ ~r.threw THEN <<chunk>> ELSE <<>>
        /\ loopState' = IF r.threw THEN "ended" ELSE "reading"
        /\ handled' = IF r.threw THEN Append(handled, ExitMsg)
                      ELSE IF r.deliver THEN Append(handled, r.message)
                      ELSE handled
        /\ dropped' = IF r.drop THEN dropped + 1 ELSE dropped

\* A pass that starts with `await this.reader.read()`: the transport hands
\* over any non-empty prefix of the bytes in flight as one chunk.
ReadChunk(n) ==
    /\ loopState = "reading"
    /\ value = <<>>
    /\ n \in 1..Len(stream)
    /\ stream' = SubSeq(stream, n + 1, Len(stream))
    /\ RunPass(SubSeq(stream, 1, n), 0)
    /\ UNCHANGED <<frames, streamEnded>>

\* A pass that goes on with the rest of the current chunk.
ContinueChunk ==
    /\ loopState = "reading"
    /\ value # <<>>
    /\ RunPass(value[1], dataOffset)
    /\ UNCHANGED <<frames, stream, streamEnded>>

\* read() reports done with an undefined value: indexing it throws a
\* TypeError, which the catch of the fetch chain turns into {type: "exit"}.
ReadDone ==
    /\ loopState = "reading"
    /\ value = <<>>
    /\ stream = <<>>
    /\ streamEnded
    /\ loopState' = "ended"
    /\ handled' = Append(handled, ExitMsg)
    /\ UNCHANGED <<frames, stream, streamEnded, value, dataOffset, buffer,
                   bufferOffset, dropped>>

\* A frame whose payload is not JSON text: the two characters {"
MalformedPayload == <<123, 34>>

\* What `frames` records for it.
MalformedMsg == [type |-> "malformed"]

\* The endpoint writes a frame whose payload is not valid JSON.
WriteMalformed ==
    /\ ~streamEnded
    /\ Len(frames) < MaxFrames
    /\ frames' = Append(frames, MalformedMsg)
    /\ stream' = stream \o Uint32Bytes(Len(MalformedPayload)) \o MalformedPayload
    /\ UNCHANGED <<streamEnded, value, dataOffset, buffer, bufferOffset,
                   loopState, handled, dropped>>

NextDecoder ==
    \/ (\E m \in CodecMessages : WriteFrame(m)) /\ UNCHANGED <<clientVars, serverVars, netVars, actionVars, storageVars>>
    \/ WriteMalformed /\ UNCHANGED <<clientVars, serverVars, netVars, actionVars, storageVars>>
    \/ EndStream /\ UNCHANGED <<clientVars, serverVars, netVars, actionVars, storageVars>>
    \/ (\E n \in 1..Len(stream) : ReadChunk(n)) /\ UNCHANGED <<clientVars, serverVars, netVars, actionVars, storageVars>>
    \/ ContinueChunk /\ UNCHANGED <<clientVars, serverVars, netVars, actionVars, storageVars>>
    \/ ReadDone /\ UNCHANGED <<clientVars, serverVars, netVars, actionVars, storageVars>>

NextCodec ==
    \/ (\E m \in CodecMessages : WriteFrame(m)) /\ UNCHANGED <<clientVars, serverVars, netVars, actionVars, storageVars>>
    \/ EndStream /\ UNCHANGED <<clientVars, serverVars, netVars, actionVars, storageVars>>
    \/ (\E n \in 1..Len(stream) : ReadChunk(n)) /\ UNCHANGED <<clientVars, serverVars, netVars, actionVars, storageVars>>
    \/ ContinueChunk /\ UNCHANGED <<clientVars, serverVars, netVars, actionVars, storageVars>>
    \/ ReadDone /\ UNCHANGED <<clientVars, serverVars, netVars, actionVars, storageVars>>

----------------------------------------------------------------------------
(* Client side: RpcProxy *)

\* Ids the client module hands out (to sockets, callbacks and calls), at most.
MaxId == 4

\* The bound, on a state of the client after a step.
WithinBounds(st) == st.idCounter <= MaxId

\* The client id the endpoint generates for the connection of socket s:
\* each connection gets an id of its own.
ClientIdFor(s) == "c" \o ToString(s)

NameSum == <<"s", "u", "m">>

NameCountDown == <<"c", "o", "u", "n", "t", "D", "o", "w", "n">>

NameAdd == <<"a", "d", "d">>

\* What the application calls and with which arguments.
Calls ==
    { [name |-> NameSum, args |-> <<Num(1), Num(2)>>],
      [name |-> NameCountDown, args |-> <<Fn("f")>>] }

ProxyCallArguments == { <<Num(5)>> }

\* What the endpoint answers.
ResultValues == {Num(3), ProxyObj(0, <<NameAdd>>)}

ErrorValues == {Str(<<"E", "r", "r">>)}

CallbackArguments == { <<Num(7)>> }

NoMessage == [type |-> "none"]

\* The private state of the proxy and the module counter as one record, so
\* that the methods can be composed as the code composes them. `threw` is
\* set when the method raised an exception, `posted` collects what the step
\* hands to MessageSocket.postMessage.
ClientState ==
    [idCounter |-> idCounter, socket |-> socket, socketState |-> socketState,
     clientId |-> clientId, callMap |-> callMap, callbackMap |-> callbackMap,
     callbacks |-> callbacks, messageQueue |-> messageQueue,
     posted |-> <<>>, threw |-> FALSE]

SetClientState(st) ==
    /\ idCounter' = st.idCounter
    /\ socket' = st.socket
    /\ socketState' = st.socketState
    /\ clientId' = st.clientId
    /\ callMap' = st.callMap
    /\ callbackMap' = st.callbackMap
    /\ callbacks' = st.callbacks
    /\ messageQueue' = st.messageQueue
    /\ sent' = st.posted
    /\ postedCalls' = postedCalls \o SelectSeq(st.posted, LAMBDA m : m.type = "call")

\* MessageSocket.close: cancels the reader, if the fetch has produced one.
SocketClose(states, s) ==
    IF states[s] \in {"open", "ready"}
    THEN [states EXCEPT ![s] = "cancelled"]
    ELSE states

\* MessageSocket.postMessage
SocketPostMessage(st, message) ==
    [st EXCEPT !.posted = Append(@, message)]

\* RpcProxy.connect: closes the current socket, makes a new MessageSocket
\* (which takes its socketId from the counter) and starts its fetch.
Connect(st) ==
    LET closed == IF st.socket # <<>>
                  THEN SocketClose(st.socketState, st.socket[1])
                  ELSE st.socketState
        id == st.idCounter
    IN  [st EXCEPT !.socket = <<id>>,
                   !.socketState = (id :> "connecting") @@ closed,
                   !.idCounter = id + 1]

\* A call made before `ready` is dropped instead of queued.
Call_DropsBeforeReady(st, callId) ==
    LET st1 == IF st.socket = <<>> THEN Connect(st) ELSE st
    IN  IF st1.clientId # ""
        THEN SocketPostMessage(st1,
                 [type |-> "call", clientId |-> st1.clientId,
                  name |-> st1.callMap[callId].name, callId |-> callId,
                  parameters |-> st1.callMap[callId].parameters])
        ELSE st1

\* RpcProxy.call
Call(st, callId) ==
    LET st1 == IF st.socket = <<>> THEN Connect(st) ELSE st
    IN  IF st1.clientId # ""
        THEN IF callId \in DOMAIN st1.callMap
             THEN SocketPostMessage(st1,
                      [type |-> "call", clientId |-> st1.clientId,
                       name |-> st1.callMap[callId].name, callId |-> callId,
                       parameters |-> st1.callMap[callId].parameters])
             ELSE [st1 EXCEPT !.threw = TRUE]  \* callItem is undefined
        ELSE [st1 EXCEPT !.messageQueue = Append(@, callId)]

\* RpcProxy.processInParameters: the state after the map and the mapped list.
RECURSIVE ProcessInParameters(_, _, _)
ProcessInParameters(st, parameters, done) ==
    IF Len(done) = Len(parameters)
    THEN [st |-> st, parameters |-> done]
    ELSE LET p == parameters[Len(done) + 1]
             callbackId == st.idCounter
         IN  IF p.js = "function"
             THEN ProcessInParameters(
                      [st EXCEPT !.idCounter = callbackId + 1,
                                 !.callbackMap = (callbackId :> p) @@ @,
                                 !.callbacks = Append(@, callbackId)],
                      parameters,
                      Append(done, CallbackObj(st.clientId, callbackId)))
             ELSE ProcessInParameters(st, parameters, Append(done, p))

\* A processOutParameters that hands every value over as it came.
ProcessOutParameter_AsReceived(r) == r

\* RpcProxy.processOutParameters, for one value.
ProcessOutParameter(r) ==
    IF IsObjectOfType(r, "proxy") THEN LocalProxy(r.instance, r.methods) ELSE r

\* RpcProxy.processOutParameters
ProcessOutParameters(results) ==
    [i \in 1..Len(results) |-> ProcessOutParameter(results[i])]

\* A body that takes the call id without advancing the counter.
StoreAndCall_KeepsCounter(st, name, parameters, promise) ==
    LET r == ProcessInParameters(st, parameters, <<>>)
        callId == r.st.idCounter
        stored == [r.st EXCEPT
                     !.callMap = (callId :> [name |-> name,
                                             parameters |-> r.parameters,
                                             promise |-> promise]) @@ @]
    IN  [st |-> Call(stored, callId), callId |-> callId,
         parameters |-> r.parameters]

\* The body of `new Promise(...)` in RpcProxy.postCall and in the methods of a
\* rebuilt proxy: marshal, take a call id, store the call, call.
StoreAndCall(st, name, parameters, promise) ==
    LET r == ProcessInParameters(st, parameters, <<>>)
        callId == r.st.idCounter
        stored == [r.st EXCEPT
                     !.idCounter = callId + 1,
                     !.callMap = (callId :> [name |-> name,
                                             parameters |-> r.parameters,
                                             promise |-> promise]) @@ @]
    IN  [st |-> Call(stored, callId), callId |-> callId,
         parameters |-> r.parameters]

\* The `ready` branch of the handler.
RECURSIVE FlushQueue(_, _, _)
FlushQueue(st, queue, i) ==
    IF i > Len(queue)
    THEN [st EXCEPT !.messageQueue = <<>>]
    ELSE LET st1 == Call(st, queue[i])
         IN  IF st1.threw THEN st1 ELSE FlushQueue(st1, queue, i + 1)

HandleReady(st, msg) ==
    LET st1 == [st EXCEPT !.clientId = msg.clientId]
    IN  FlushQueue(st1, st1.messageQueue, 1)

\* The `heartbeat` branch: priv.socket.postMessage throws when socket is null.
HandleHeartbeat(st) ==
    IF st.socket = <<>>
    THEN [st EXCEPT !.threw = TRUE]
    ELSE SocketPostMessage(st, [type |-> "heartbeat", clientId |-> st.clientId])

\* An `exit` branch that forgets the list of callback ids but leaves the
\* callback map alone.
HandleExit_KeepsCallbacks(st) ==
    [st EXCEPT
       !.callbacks = <<>>,
       !.clientId = "",
       !.socket = <<>>]

\* The `exit` branch.
HandleExit(st) ==
    [st EXCEPT
       !.callbackMap = [id \in DOMAIN @ \ Range(st.callbacks) |-> @[id]],
       !.callbacks = <<>>,
       !.clientId = "",
       !.socket = <<>>]

\* The `methodResult` / `methodError` branches: the entry whose resolve or
\* reject is invoked, and the map after the delete.
\* Responses are taken to arrive in issue order: the oldest pending call is
\* settled, whatever the frame's callId.
SettledEntry_Oldest(st, msg) ==
    st.callMap[CHOOSE id \in DOMAIN st.callMap : \A j \in DOMAIN st.callMap : id <= j]

SettledEntry(st, msg) == st.callMap[msg.callId]

HandleResponse(st, msg) ==
    IF msg.callId \in DOMAIN st.callMap
    THEN [st EXCEPT !.callMap = [id \in DOMAIN @ \ {msg.callId} |-> @[id]]]
    ELSE [st EXCEPT !.threw = TRUE]

\* A `callback` branch that deletes the handle whatever the function returns.
HandleCallback_AlwaysRemoves(st, msg, remove) ==
    IF msg.callback \in DOMAIN st.callbackMap
    THEN [st EXCEPT !.callbackMap = [id \in DOMAIN @ \ {msg.callback} |-> @[id]]]
    ELSE [st EXCEPT !.threw = TRUE]

\* The `callback` branch; `remove` is what the local function returned.
HandleCallback(st, msg, remove) ==
    IF msg.callback \in DOMAIN st.callbackMap
    THEN IF remove
         THEN [st EXCEPT !.callbackMap = [id \in DOMAIN @ \ {msg.callback} |-> @[id]]]
         ELSE st
    ELSE [st EXCEPT !.threw = TRUE]

ClientInit ==
    /\ idCounter = 0
    /\ socket = <<>>
    /\ socketState = <<>>
    /\ clientId = ""
    /\ callMap = <<>>
    /\ callbackMap = <<>>
    /\ callbacks = <<>>
    /\ messageQueue = <<>>
    /\ postedCalls = <<>>
    /\ sent = <<>>
    /\ promises = <<>>
    /\ localProxies = {}
    /\ invoked = <<>>
    /\ received = NoMessage

\* The application issues a call named `name` with arguments `args`.
IssueCall(name, args) ==
    LET r == StoreAndCall(ClientState, name, args, Len(promises) + 1)
    IN  /\ WithinBounds(r.st)
        /\ SetClientState(r.st)
        /\ promises' = Append(promises,
               [name |-> name, args |-> args, callId |-> r.callId,
                parameters |-> r.parameters,
                state |-> "pending", value |-> Undefined])
        /\ received' = NoMessage
        /\ invoked' = <<>>
        /\ UNCHANGED localProxies

\* RpcProxy.postCall(name, ...parameters)
PostCall(name, args) == IssueCall(name, args)

\* A method of a rebuilt proxy object is called.
ProxyMethodCall(proxy, i, args) ==
    /\ proxy \in localProxies
    /\ i \in 1..Len(proxy.members)
    /\ IssueCall(Numeral(proxy.standInFor) \o <<".">> \o proxy.members[i], args)

\* The endpoint property is set: RpcProxy.connect.
SetEndpoint ==
    LET st == Connect(ClientState)
    IN  /\ WithinBounds(st)
        /\ SetClientState(st)
        /\ received' = NoMessage
        /\ invoked' = <<>>
        /\ UNCHANGED <<promises, localProxies>>

\* fetch resolves with an ok response: the read loop starts.
FetchResponds(s) ==
    /\ s \in DOMAIN socketState
    /\ socketState[s] = "connecting"
    /\ socketState' = [socketState EXCEPT ![s] = "open"]
    /\ received' = NoMessage
    /\ sent' = <<>>
    /\ invoked' = <<>>
    /\ UNCHANGED <<idCounter, socket, clientId, callMap, callbackMap, callbacks,
                   messageQueue, postedCalls, promises, localProxies>>

\* fetch resolves with a response that is not ok: nothing else happens.
FetchRefused(s) ==
    /\ s \in DOMAIN socketState
    /\ socketState[s] = "connecting"
    /\ socketState' = [socketState EXCEPT ![s] = "ended"]
    /\ received' = NoMessage
    /\ sent' = <<>>
    /\ invoked' = <<>>
    /\ UNCHANGED <<idCounter, socket, clientId, callMap, callbackMap, callbacks,
                   messageQueue, postedCalls, promises, localProxies>>

\* The handler of the proxy runs on `msg`, delivered by socket s; other
\* effects (promises, callbacks) are added by the caller.
RunHandler(s, st, msg, nextState) ==
    /\ SetClientState([st EXCEPT !.socketState[s] = nextState])
    /\ received' = msg

\* fetch fails, or the reverse channel ends or was cancelled: the catch of
\* the fetch chain hands {type: "exit"} to the handler.
SocketExit(s) ==
    /\ s \in DOMAIN socketState
    /\ socketState[s] \in {"connecting", "open", "ready", "cancelled"}
    /\ RunHandler(s, HandleExit(ClientState), ExitMsg, "ended")
    /\ invoked' = <<>>
    /\ UNCHANGED <<promises, localProxies>>

ReceiveReady(s, c) ==
    /\ s \in DOMAIN socketState
    /\ socketState[s] = "open"
    /\ LET msg == [type |-> "ready", clientId |-> c, sessionId |-> "s"]
           st == HandleReady(ClientState, msg)
       IN  /\ WithinBounds(st)
           /\ RunHandler(s, st, msg, "ready")
    /\ invoked' = <<>>
    /\ UNCHANGED <<promises, localProxies>>

ReceiveHeartbeat(s) ==
    /\ s \in DOMAIN socketState
    /\ socketState[s] = "ready"
    /\ RunHandler(s, HandleHeartbeat(ClientState), HeartbeatMsg, "ready")
    /\ invoked' = <<>>
    /\ UNCHANGED <<promises, localProxies>>

\* Call ids the endpoint has received and not yet answered.
Unanswered ==
    {m.callId : m \in Range(postedCalls)}
        \cap {promises[k].callId : k \in {j \in 1..Len(promises) : promises[j].state = "pending"}}

ReceiveResponse(s, msg) ==
    /\ s \in DOMAIN socketState
    /\ socketState[s] = "ready"
    /\ msg.callId \in Unanswered
    /\ LET st == HandleResponse(ClientState, msg)
           entry == SettledEntry(ClientState, msg)
           result == ProcessOutParameter(msg.value)
       IN  /\ RunHandler(s, st, msg, "ready")
           /\ IF st.threw
              THEN UNCHANGED <<promises, localProxies>>
              ELSE /\ promises' =
                        [promises EXCEPT ![entry.promise] =
                            [@ EXCEPT !.state = IF msg.type = "methodResult"
                                                THEN "resolved" ELSE "rejected",
                                      !.value = IF msg.type = "methodResult"
                                                THEN result ELSE msg.value]]
                   /\ localProxies' =
                        IF msg.type = "methodResult" /\ IsObjectOfType(msg.value, "proxy")
                        THEN localProxies \cup {result}
                        ELSE localProxies
    /\ invoked' = <<>>

\* Callback ids the endpoint has been sent.
SentCallbacks ==
    UNION { {p.safeCallback : p \in {q \in Range(m.parameters) : IsObjectOfType(q, "callback")}}
            : m \in Range(postedCalls) }

ReceiveCallback(s, id, args, remove) ==
    /\ s \in DOMAIN socketState
    /\ socketState[s] = "ready"
    /\ id \in SentCallbacks
    /\ LET msg == [type |-> "callback", callback |-> id, parameters |-> args]
           st == HandleCallback(ClientState, msg, remove)
       IN  /\ RunHandler(s, st, msg, "ready")
           /\ invoked' = IF st.threw THEN <<>>
                         ELSE <<[function |-> callbackMap[id],
                                 parameters |-> ProcessOutParameters(args),
                                 returned |-> remove]>>
           /\ localProxies' =
                 IF st.threw THEN localProxies
                 ELSE localProxies \cup
                      {ProcessOutParameter(args[i]) :
                         i \in {j \in 1..Len(args) : IsObjectOfType(args[j], "proxy")}}
    /\ UNCHANGED promises

NextClient ==
    \/ (\E c \in Calls : PostCall(c.name, c.args)) /\ UNCHANGED <<codecVars, serverVars, netVars, actionVars, storageVars>>
    \/ (\E proxy \in localProxies, i \in 1..1, args \in ProxyCallArguments :
          ProxyMethodCall(proxy, i, args)) /\ UNCHANGED <<codecVars, serverVars, netVars, actionVars, storageVars>>
    \/ SetEndpoint /\ UNCHANGED <<codecVars, serverVars, netVars, actionVars, storageVars>>
    \/ (\E s \in DOMAIN socketState : FetchResponds(s)) /\ UNCHANGED <<codecVars, serverVars, netVars, actionVars, storageVars>>
    \/ (\E s \in DOMAIN socketState : FetchRefused(s)) /\ UNCHANGED <<codecVars, serverVars, netVars, actionVars, storageVars>>
    \/ (\E s \in DOMAIN socketState : SocketExit(s)) /\ UNCHANGED <<codecVars, serverVars, netVars, actionVars, storageVars>>
    \/ (\E s \in DOMAIN socketState : ReceiveReady(s, ClientIdFor(s))) /\ UNCHANGED <<codecVars, serverVars, netVars, actionVars, storageVars>>
    \/ (\E s \in DOMAIN socketState : ReceiveHeartbeat(s)) /\ UNCHANGED <<codecVars, serverVars, netVars, actionVars, storageVars>>
    \/ (\E s \in DOMAIN socketState, id \in Unanswered, v \in ResultValues :
          ReceiveResponse(s, [type |-> "methodResult", callId |-> id, value |-> v]))
         /\ UNCHANGED <<codecVars, serverVars, netVars, actionVars, storageVars>>
    \/ (\E s \in DOMAIN socketState, id \in Unanswered, v \in ErrorValues :
          ReceiveResponse(s, [type |-> "methodError", callId |-> id, value |-> v]))
         /\ UNCHANGED <<codecVars, serverVars, netVars, actionVars, storageVars>>
    \/ (\E s \in DOMAIN socketState, id \in SentCallbacks,
          args \in CallbackArguments, remove \in BOOLEAN :
          ReceiveCallback(s, id, args, remove)) /\ UNCHANGED <<codecVars, serverVars, netVars, actionVars, storageVars>>

\* The scenarios about queued calls. The application acts only while an id
\* is left over for the connect() that a later `ready` may have to make, so
\* that no frame of the endpoint is held back by the bound on ids.
QueuePostCall(name, args) ==
    /\ PostCall(name, args)
    /\ idCounter' < MaxId

QueueSetEndpoint ==
    /\ SetEndpoint
    /\ idCounter' < MaxId

\* The fetch of socket s settles: with a response, or with a failure that
\* the catch of the fetch chain turns into {type: "exit"}.
FetchSettles(s) ==
    \/ FetchResponds(s)
    \/ (socketState[s] = "connecting" /\ SocketExit(s))

NextQueue ==
    \/ (\E c \in Calls : QueuePostCall(c.name, c.args)) /\ UNCHANGED <<codecVars, serverVars, netVars, actionVars, storageVars>>
    \/ QueueSetEndpoint /\ UNCHANGED <<codecVars, serverVars, netVars, actionVars, storageVars>>
    \/ (\E s \in DOMAIN socketState : FetchResponds(s)) /\ UNCHANGED <<codecVars, serverVars, netVars, actionVars, storageVars>>
    \/ (\E s \in DOMAIN socketState : SocketExit(s)) /\ UNCHANGED <<codecVars, serverVars, netVars, actionVars, storageVars>>
    \/ (\E s \in DOMAIN socketState : ReceiveReady(s, ClientIdFor(s))) /\ UNCHANGED <<codecVars, serverVars, netVars, actionVars, storageVars>>

\* What the runtime and the endpoint guarantee: a pending fetch settles, a
\* fetch that is made again and again is accepted once, a cancelled reader
\* ends the read loop, and an accepted connection gets its `ready` frame.
\* The application is under no obligation to act.
QueueFairness ==
    /\ WF_vars((\E s \in DOMAIN socketState : FetchSettles(s))
                 /\ UNCHANGED <<codecVars, serverVars, netVars, actionVars, storageVars>>)
    /\ SF_vars((\E s \in DOMAIN socketState : FetchResponds(s))
                 /\ UNCHANGED <<codecVars, serverVars, netVars, actionVars, storageVars>>)
    /\ WF_vars((\E s \in DOMAIN socketState :
                    socketState[s] = "cancelled" /\ SocketExit(s))
                 /\ UNCHANGED <<codecVars, serverVars, netVars, actionVars, storageVars>>)
    /\ WF_vars((\E s \in DOMAIN socketState : ReceiveReady(s, ClientIdFor(s)))
                 /\ UNCHANGED <<codecVars, serverVars, netVars, actionVars, storageVars>>)

\* The scenarios about rebuilt proxies: what the endpoint answers, what it
\* passes to a callback, and what the application passes to the methods of a
\* rebuilt proxy.
ReconstructValues == {Num(3), Null, PlainObj, ProxyObj(0, <<NameAdd>>)}

ReconstructCallbackArguments == { <<ProxyObj(1, <<NameAdd>>), Null>> }

ReconstructCallArguments == { <<Num(5)>>, <<Fn("g")>> }

NextReconstruct ==
    \/ (\E c \in Calls : PostCall(c.name, c.args)) /\ UNCHANGED <<codecVars, serverVars, netVars, actionVars, storageVars>>
    \/ (\E proxy \in localProxies, i \in 1..1, args \in ReconstructCallArguments :
          ProxyMethodCall(proxy, i, args)) /\ UNCHANGED <<codecVars, serverVars, netVars, actionVars, storageVars>>
    \/ SetEndpoint /\ UNCHANGED <<codecVars, serverVars, netVars, actionVars, storageVars>>
    \/ (\E s \in DOMAIN socketState : FetchResponds(s)) /\ UNCHANGED <<codecVars, serverVars, netVars, actionVars, storageVars>>
    \/ (\E s \in DOMAIN socketState : SocketExit(s)) /\ UNCHANGED <<codecVars, serverVars, netVars, actionVars, storageVars>>
    \/ (\E s \in DOMAIN socketState : ReceiveReady(s, ClientIdFor(s))) /\ UNCHANGED <<codecVars, serverVars, netVars, actionVars, storageVars>>
    \/ (\E s \in DOMAIN socketState, id \in Unanswered, v \in ReconstructValues :
          ReceiveResponse(s, [type |-> "methodResult", callId |-> id, value |-> v]))
         /\ UNCHANGED <<codecVars, serverVars, netVars, actionVars, storageVars>>
    \/ (\E s \in DOMAIN socketState, id \in SentCallbacks,
          args \in ReconstructCallbackArguments, remove \in BOOLEAN :
          ReceiveCallback(s, id, args, remove)) /\ UNCHANGED <<codecVars, serverVars, netVars, actionVars, storageVars>>

----------------------------------------------------------------------------
(* Server side: RpcSession *)

\* this.wait(30000, "heartbeat")
HeartbeatInterval == 30000

\* this.wait(60000, "closeExpired")
SweepInterval == 60000

\* expires: Date.now() + 60000, of a new connection
ExpiresAfterGet == 60000

\* expires = Date.now() + 60000, on a heartbeat message
ExpiresAfterHeartbeat == 60000

\* Objects the application proxies, at most.
MaxProxies == 1

\* Objects the application proxies in the scenarios about proxies, at most.
MaxProxyIds == 2

\* Times a registered method invokes a callback closure before it returns,
\* at most.
MaxInvocations == 2

\* Frames written to the reverse channel that is followed to the client, at
\* most.
MaxWritten == 6

\* Promises of registered methods that are unsettled together, at most.
MaxPending == 1

\* The clock advances in steps of the shorter of the two periods and stops
\* after MaxRounds periods of the sweeper.
MaxRounds == 2

TickMs == HeartbeatInterval

MaxTime == MaxRounds * SweepInterval

TimerNames == {"heartbeat", "closeExpired"}

\* core.generateUid(): a fresh id on every call; the ids it returns, in order.
Uids == <<"c0", "c1">>

Uid(n) == Uids[n + 1]

SessionId == "session"

NameMissing == <<"n", "o", "n", "e">>

NoSuchMethod ==
    <<"N", "o", " ", "s", "u", "c", "h", " ", "m", "e", "t", "h", "o", "d", " ",
      "t", "o", " ", "c", "a", "l", "l", ":", " ">>

\* An Error object with the given message.
ErrorObj(message) == [js |-> "object", error |-> message]

\* The TypeError of reading a property of null or undefined.
TypeErrorObj(message) == [js |-> "object", typeError |-> message]

\* null.constructor
NullConstructorError ==
    TypeErrorObj(<<"C", "a", "n", "n", "o", "t", " ", "r", "e", "a", "d", " ",
                   "p", "r", "o", "p", "e", "r", "t", "i", "e", "s", " ",
                   "o", "f", " ", "n", "u", "l", "l">>)

\* priv.clients.get(clientId).proxies, of a client that is not in the map
UndefinedProxiesError ==
    TypeErrorObj(<<"C", "a", "n", "n", "o", "t", " ", "r", "e", "a", "d", " ",
                   "p", "r", "o", "p", "e", "r", "t", "i", "e", "s", " ",
                   "o", "f", " ", "u", "n", "d", "e", "f", "i", "n", "e", "d">>)

\* new Promise(...): constructor.name is "Promise".
PromiseObj == [js |-> "object", constructor |-> "Promise"]

IsPromise(v) == v.js = "object" /\ "constructor" \in DOMAIN v /\ v.constructor = "Promise"

\* A conversion that gives the message of an Error without its name.
ToStr_MessageOnly(err) ==
    IF err.js = "string" THEN err.s
    ELSE IF "error" \in DOMAIN err THEN err.error
    ELSE <<"[", "o", "b", "j", "e", "c", "t", " ", "O", "b", "j", "e", "c", "t", "]">>

\* "" + err
ToStr(err) ==
    IF err.js = "string" THEN err.s
    ELSE IF err.js = "number" THEN Numeral(err.n)
    ELSE IF err.js = "undefined"
         THEN <<"u", "n", "d", "e", "f", "i", "n", "e", "d">>
    ELSE IF "error" \in DOMAIN err
         THEN <<"E", "r", "r", "o", "r", ":", " ">> \o err.error
    ELSE IF "typeError" \in DOMAIN err
         THEN <<"T", "y", "p", "e", "E", "r", "r", "o", "r", ":", " ">> \o err.typeError
    ELSE IF IsNull(err) THEN <<"n", "u", "l", "l">>
    ELSE <<"[", "o", "b", "j", "e", "c", "t", " ", "O", "b", "j", "e", "c", "t", "]">>

\* Insertion of a due time into an ascending list of due times.
InsertDue(dues, due) ==
    SelectSeq(dues, LAMBDA x : x <= due) \o <<due>> \o SelectSeq(dues, LAMBDA x : x > due)

\* The session (and the module-level id counter) as a record, so that the
\* methods below are functions from state to state.
ServerState ==
    [clients |-> clients, methods |-> methods, idCounter |-> sessionIdCounter,
     uidCounter |-> uidCounter, timers |-> timers, removed |-> removed,
     closures |-> closures, pendingResults |-> pendingResults,
     history |-> history, wrote |-> <<>>, threw |-> FALSE]

\* [...priv.clients.keys()]: the connected client ids, in insertion order.
ClientKeys(st) ==
    SelectSeq([i \in 1..st.uidCounter |-> Uid(i - 1)],
              LAMBDA c : c \in DOMAIN st.clients)

\* Object.wait(ms, name): a timer that is due ms from now.
Wait(st, ms, name) == [st EXCEPT !.timers[name] = InsertDue(@, now + ms)]

\* Object.abortWait(name): the pending waits of that name never resolve.
AbortWait(st, name) == [st EXCEPT !.timers[name] = <<>>]

\* A postMessage that writes without looking the client up.
PostMessage_Unchecked(st, cid, message) ==
    [st EXCEPT !.wrote = Append(@, [to |-> cid, frame |-> message])]

\* A postMessage whose frame overtakes the frames written before it.
PostMessage_Overtakes(st, cid, message) ==
    IF cid \in DOMAIN st.clients
    THEN [st EXCEPT !.wrote = <<[to |-> cid, frame |-> message]>> \o @]
    ELSE st

\* RpcSession.postMessage
PostMessage(st, cid, message) ==
    IF cid \in DOMAIN st.clients
    THEN [st EXCEPT !.wrote = Append(@, [to |-> cid, frame |-> message])]
    ELSE st

\* A registration that keeps the implementation a name already has.
RegisterMethod_KeepsFirst(st, name, f) ==
    [st EXCEPT !.methods = [n \in DOMAIN @ \cup {name} |->
                               IF n \in DOMAIN @ THEN @[n] ELSE f]]

\* RpcSession.registerMethod
RegisterMethod(st, name, f) ==
    [st EXCEPT !.methods = [n \in DOMAIN @ \cup {name} |->
                               IF n = name THEN f ELSE @[n]]]

\* proxyId + "." + key
ProxyMethodName(proxyId, key) == Numeral(proxyId) \o <<".">> \o key

RECURSIVE RegisterKeys(_, _, _, _)
RegisterKeys(st, proxyId, keys, i) ==
    IF i > Len(keys) THEN st
    ELSE RegisterKeys(RegisterMethod(st, ProxyMethodName(proxyId, keys[i]),
                                     [bound |-> proxyId, key |-> keys[i]]),
                      proxyId, keys, i + 1)

\* A proxyObject that does not advance the id counter.
ProxyObject_SameId(st, keys) ==
    [st |-> RegisterKeys(st, st.idCounter, keys, 1),
     result |-> ProxyObj(st.idCounter, keys)]

\* RpcSession.proxyObject, of an object whose function-valued keys are `keys`:
\* the state after it and the descriptor it returns.
ProxyObject(st, keys) ==
    LET proxyId == st.idCounter
        st1 == [st EXCEPT !.idCounter = @ + 1]
    IN  [st |-> RegisterKeys(st1, proxyId, keys, 1),
         result |-> ProxyObj(proxyId, keys)]

\* A purge loop that deletes nothing.
Purged_Nothing(proxies, methodId) == FALSE

\* Whether removeClient's purge loop deletes the method name for this client.
Purged(proxies, methodId) ==
    \E i \in 1..Len(proxies) :
        StartsWith(methodId, Numeral(proxies[i]) \o <<".">>)

\* The connection leaves the histories: it is recorded as destroyed.
Destroyed(st, cid, by, channelEnded) ==
    [st EXCEPT
       !.history = [c \in DOMAIN @ \ {cid} |-> @[c]],
       !.removed = [c \in DOMAIN @ \cup {cid} |->
                       IF c = cid
                       THEN [by |-> by, ended |-> channelEnded,
                             proxies |-> st.clients[cid].proxies]
                       ELSE @[c]]]

\* A removeClient that ends the channel and purges the proxies but leaves
\* the connection in the map.
RemoveClient_KeepsEntry(st, cid, by) ==
    IF cid \notin DOMAIN st.clients THEN [st EXCEPT !.threw = TRUE]
    ELSE
    LET client == st.clients[cid]
        kept == {n \in DOMAIN st.methods : ~Purged(client.proxies, n)}
    IN  [st EXCEPT
           !.methods = [n \in kept |-> st.methods[n]],
           !.removed = [c \in DOMAIN @ \cup {cid} |->
                           IF c = cid
                           THEN [by |-> by, ended |-> TRUE,
                                 proxies |-> client.proxies]
                           ELSE @[c]]]

\* RpcSession.removeClient; `by` is recorded in the history only.
RemoveClient(st, cid, by) ==
    IF cid \notin DOMAIN st.clients THEN [st EXCEPT !.threw = TRUE]
    ELSE
    LET client == st.clients[cid]
        kept == {n \in DOMAIN st.methods : ~Purged(client.proxies, n)}
        st1 == [Destroyed(st, cid, by, TRUE) EXCEPT
                  !.methods = [n \in kept |-> st.methods[n]],
                  !.clients = [c \in DOMAIN @ \ {cid} |-> @[c]]]
    IN  IF DOMAIN st1.clients = {}
        THEN AbortWait(AbortWait(st1, "heartbeat"), "closeExpired")
        ELSE st1

\* The close and error handlers of the reverse channel: priv.clients.delete.
ChannelGone(st, cid, by) ==
    IF cid \notin DOMAIN st.clients THEN st
    ELSE [Destroyed(st, cid, by, FALSE) EXCEPT
            !.clients = [c \in DOMAIN @ \ {cid} |-> @[c]]]

RECURSIVE HeartbeatEach(_, _, _)
HeartbeatEach(st, clientIds, i) ==
    IF i > Len(clientIds) THEN st
    ELSE LET c == clientIds[i]
             st1 == PostMessage(st, c, [type |-> "heartbeat"])
         IN  HeartbeatEach(
                 [st1 EXCEPT !.history[c].unanswered = Min(@ + 1, 2)],
                 clientIds, i + 1)

\* A heartbeat that goes on scheduling itself when nobody is connected.
Heartbeat_KeepsRunning(st) ==
    Wait(HeartbeatEach(st, ClientKeys(st), 1), HeartbeatInterval, "heartbeat")

\* RpcSession.heartbeat
Heartbeat(st) ==
    IF DOMAIN st.clients = {} THEN st
    ELSE Wait(HeartbeatEach(st, ClientKeys(st), 1), HeartbeatInterval, "heartbeat")

\* client.expires <= Date.now(): a sweep that also takes the connections
\* whose expiry is the present moment.
Expired_Inclusive(client) == client.expires <= now

\* client.expires < Date.now()
Expired(client) == client.expires < now

RECURSIVE CloseExpiredEach(_, _, _)
CloseExpiredEach(st, clientIds, i) ==
    IF i > Len(clientIds) THEN st
    ELSE LET c == clientIds[i]
         IN  CloseExpiredEach(
                 IF Expired(st.clients[c]) THEN RemoveClient(st, c, "expired")
                 ELSE st,
                 clientIds, i + 1)

\* RpcSession.closeExpired
CloseExpired(st) ==
    IF DOMAIN st.clients = {} THEN st
    ELSE Wait(CloseExpiredEach(st, ClientKeys(st), 1), SweepInterval, "closeExpired")

\* A closure that posts to the first connection, whoever made the call.
Closure_FirstClient(cid, callbackId) ==
    [js |-> "function", clientId |-> "c0", callback |-> callbackId]

\* processInParameters of the server: a callback placeholder becomes a
\* closure over the client id and the callback id.
Closure(cid, callbackId) ==
    [js |-> "function", clientId |-> cid, callback |-> callbackId]

ServerInParameter(cid, p) ==
    IF p.js = "object"
    THEN IF IsObjectOfType(p, "callback") THEN Closure(cid, p.safeCallback) ELSE p
    ELSE p

ServerInParameters(cid, parameters) ==
    [i \in 1..Len(parameters) |-> ServerInParameter(cid, parameters[i])]

IsClosure(p) == p.js = "function" /\ "callback" \in DOMAIN p

\* What a registered method does when it is invoked: it returns a value, it
\* throws, it returns a promise, or it returns the descriptor of an object it
\* has just proxied.
MethodOutcomes ==
    { [kind |-> "return", value |-> Num(3)],
      [kind |-> "return", value |-> Null],
      [kind |-> "return", value |-> PlainObj],
      [kind |-> "throw", value |-> ErrorObj(<<"E">>)],
      [kind |-> "promise"] }

\* In the scenarios about proxies the method returns the descriptor of an
\* object it has just proxied, or a plain value.
ProxyOutcomes ==
    { [kind |-> "proxy", keys |-> <<NameAdd>>],
      [kind |-> "return", value |-> Num(3)] }

OutcomeWithin(st, outcome, maxProxies) ==
    /\ outcome.kind = "promise" => Len(st.pendingResults) < MaxPending
    /\ outcome.kind = "proxy" => st.idCounter < maxProxies

OutcomeWithinBounds(st, outcome) == OutcomeWithin(st, outcome, MaxProxies)

\* The closure made by processInParameters is invoked with `parameters`.
CallClosure(st, cl, parameters) ==
    PostMessage(st, cl.clientId,
        [type |-> "callback", callback |-> cl.callback, parameters |-> parameters])

\* A method invokes the closure k times in a row, with 1, 2, ... k.
RECURSIVE CallClosureTimes(_, _, _, _)
CallClosureTimes(st, cl, i, k) ==
    IF i > k THEN st
    ELSE CallClosureTimes(CallClosure(st, cl, <<Num(i)>>), cl, i + 1, k)

\* priv.methods.get(msg.name)(...parameters): the state after the run, whether
\* it threw, and the value returned or thrown.
RunMethod(st, parameters, outcome) ==
    IF outcome.kind = "callbacks"
    THEN LET cls == SelectSeq(parameters, IsClosure)
         IN  [st |-> IF cls = <<>> THEN st
                     ELSE CallClosureTimes(st, cls[1], 1, outcome.times),
              threw |-> FALSE, value |-> outcome.value]
    ELSE IF outcome.kind = "throw" THEN [st |-> st, threw |-> TRUE, value |-> outcome.value]
    ELSE IF outcome.kind = "promise"
         THEN [st |-> st, threw |-> FALSE, value |-> PromiseObj]
    ELSE IF outcome.kind = "proxy"
         THEN LET r == ProxyObject(st, outcome.keys)
              IN  [st |-> r.st, threw |-> FALSE, value |-> r.result]
    ELSE [st |-> st, threw |-> FALSE, value |-> outcome.value]

\* A handleResult that answers a promise at once, with the promise as the
\* value, and answers again when it settles.
HandleResult_AnswersPromise(st, cid, r, callId) ==
    IF IsNull(r)
    THEN [st |-> st, threw |-> TRUE, value |-> NullConstructorError]
    ELSE IF IsObjectOfType(r, "proxy")
    THEN [st |-> PostMessage(
                     [st EXCEPT !.clients[cid].proxies = Append(@, r.instance)],
                     cid,
                     [type |-> "methodResult", callId |-> callId, value |-> r]),
          threw |-> FALSE, value |-> Undefined]
    ELSE [st |-> PostMessage(
                     [st EXCEPT !.pendingResults =
                         IF IsPromise(r)
                         THEN Append(@, [clientId |-> cid, callId |-> callId])
                         ELSE @],
                     cid,
                     [type |-> "methodResult", callId |-> callId, value |-> r]),
          threw |-> FALSE, value |-> Undefined]

\* handleResult, with the two continuations of handleMessage: the state
\* after it, whether it threw, and what it threw.
HandleResult(st, cid, r, callId) ==
    IF IsNull(r)
    THEN [st |-> st, threw |-> TRUE, value |-> NullConstructorError]
    ELSE IF IsPromise(r)
    THEN [st |-> [st EXCEPT !.pendingResults =
                     Append(@, [clientId |-> cid, callId |-> callId])],
          threw |-> FALSE, value |-> Undefined]
    ELSE IF IsObjectOfType(r, "proxy")
    THEN IF cid \notin DOMAIN st.clients
         THEN [st |-> st, threw |-> TRUE, value |-> UndefinedProxiesError]
         ELSE [st |-> PostMessage(
                          [st EXCEPT !.clients[cid].proxies = Append(@, r.instance)],
                          cid,
                          [type |-> "methodResult", callId |-> callId, value |-> r]),
               threw |-> FALSE, value |-> Undefined]
    ELSE [st |-> PostMessage(st, cid,
                     [type |-> "methodResult", callId |-> callId, value |-> r]),
          threw |-> FALSE, value |-> Undefined]

\* An error value that leaves the prefix out.
NoSuchMethodError_NameOnly(name) == Str(name)

\* "No such method to call: " + msg.name
NoSuchMethodError(name) == Str(NoSuchMethod \o name)

\* A heartbeat message that leaves the expiry at the time of receipt.
ExpiryAfterHeartbeat_Unchanged(t) == t

\* Date.now() + 60000, on a heartbeat message
ExpiryAfterHeartbeat(t) == t + ExpiresAfterHeartbeat

\* handleMessage, of a message of a connected client.
HandleMessage(st, cid, msg, outcome) ==
    IF msg.type = "heartbeat"
    THEN [st EXCEPT !.clients[cid].expires = ExpiryAfterHeartbeat(now),
                    !.history[cid].unanswered = 0,
                    !.history[cid].answered = TRUE]
    ELSE IF msg.type = "call"
    THEN IF msg.name \in DOMAIN st.methods
         THEN LET parameters == ServerInParameters(cid, msg.parameters)
                  st1 == [st EXCEPT !.closures = @ \cup
                             {parameters[i] : i \in
                                 {j \in 1..Len(parameters) : IsClosure(parameters[j])}}]
                  run == RunMethod(st1, parameters, outcome)
                  res == HandleResult(run.st, cid, run.value, msg.callId)
              IN  IF run.threw
                  THEN PostMessage(run.st, cid,
                           [type |-> "methodError", callId |-> msg.callId,
                            value |-> Str(ToStr(run.value))])
                  ELSE IF res.threw
                  THEN PostMessage(res.st, cid,
                           [type |-> "methodError", callId |-> msg.callId,
                            value |-> Str(ToStr(res.value))])
                  ELSE res.st
         ELSE PostMessage(st, cid,
                  [type |-> "methodError", callId |-> msg.callId,
                   value |-> NoSuchMethodError(msg.name)])
    ELSE IF msg.type = "exit"
    THEN RemoveClient(st, cid, "exit")
    ELSE st

\* The method a call message invokes, with the parameters it is given.
Invocation(st, msg) ==
    IF msg.type = "call" /\ msg.clientId \in DOMAIN st.clients
       /\ msg.name \in DOMAIN st.methods
    THEN <<[function |-> st.methods[msg.name],
            parameters |-> ServerInParameters(msg.clientId, msg.parameters)]>>
    ELSE <<>>

\* A GET handler that starts the loops before it posts `ready`.
OnGet_LoopsFirst(st) ==
    LET cid == Uid(st.uidCounter)
        st1 == [st EXCEPT
                  !.uidCounter = @ + 1,
                  !.clients = [c \in DOMAIN @ \cup {cid} |->
                                  IF c = cid
                                  THEN [proxies |-> <<>>,
                                        expires |-> now + ExpiresAfterGet]
                                  ELSE @[c]],
                  !.history = [c \in DOMAIN @ \cup {cid} |->
                                  IF c = cid
                                  THEN [opened |-> now, unanswered |-> 0,
                                        answered |-> FALSE]
                                  ELSE @[c]]]
        st2 == IF Cardinality(DOMAIN st1.clients) = 1
               THEN CloseExpired(Heartbeat(st1))
               ELSE st1
    IN  PostMessage(st2, cid,
            [type |-> "ready", clientId |-> cid, sessionId |-> SessionId])

\* onRequest, GET
OnGet(st) ==
    LET cid == Uid(st.uidCounter)
        st1 == [st EXCEPT
                  !.uidCounter = @ + 1,
                  !.clients = [c \in DOMAIN @ \cup {cid} |->
                                  IF c = cid
                                  THEN [proxies |-> <<>>,
                                        expires |-> now + ExpiresAfterGet]
                                  ELSE @[c]],
                  !.history = [c \in DOMAIN @ \cup {cid} |->
                                  IF c = cid
                                  THEN [opened |-> now, unanswered |-> 0,
                                        answered |-> FALSE]
                                  ELSE @[c]]]
        st2 == PostMessage(st1, cid,
                   [type |-> "ready", clientId |-> cid, sessionId |-> SessionId])
    IN  IF Cardinality(DOMAIN st2.clients) = 1
        THEN CloseExpired(Heartbeat(st2))
        ELSE st2

\* A POST handler that answers 200 "OK" whether the client is connected or not.
OnPost_AlwaysOk(st, msg, outcome) ==
    IF msg.clientId \notin DOMAIN st.clients
    THEN [st |-> st, status |-> 200]
    ELSE [st |-> HandleMessage(st, msg.clientId, msg, outcome), status |-> 200]

\* onRequest, POST, once the body has arrived and parsed: the state after it
\* and the status of the response.
OnPost(st, msg, outcome) ==
    IF msg.clientId \notin DOMAIN st.clients
    THEN [st |-> st, status |-> 500]
    ELSE [st |-> HandleMessage(st, msg.clientId, msg, outcome), status |-> 200]

ServerInit ==
    /\ now = 0
    /\ clients = <<>>
    /\ methods = <<>>
    /\ sessionIdCounter = 0
    /\ uidCounter = 0
    /\ timers = [n \in TimerNames |-> <<>>]
    /\ removed = <<>>
    /\ closures = {}
    /\ pendingResults = <<>>
    /\ wrote = <<>>
    /\ event = [type |-> "init"]
    /\ history = <<>>

\* The session after a handler has run, and what ran as the step's event.
SetServerState(st, ev) ==
    /\ ~st.threw
    /\ clients' = st.clients
    /\ methods' = st.methods
    /\ sessionIdCounter' = st.idCounter
    /\ uidCounter' = st.uidCounter
    /\ timers' = st.timers
    /\ removed' = st.removed
    /\ closures' = st.closures
    /\ pendingResults' = st.pendingResults
    /\ history' = st.history
    /\ wrote' = st.wrote
    /\ event' = ev
    /\ UNCHANGED now

\* A client opens a connection.
Get ==
    /\ uidCounter < Len(Uids)
    /\ SetServerState(OnGet(ServerState), [type |-> "GET", clientId |-> Uid(uidCounter)])

CallIds == {1, 2}

\* The client ids a POST can name: those the endpoint has or could have given out.
PostedClientIds == Range(Uids)

PostedParameters(c) == <<Num(1), CallbackObj(c, 1)>>

\* The call messages a POST can carry under client id c.
PostedCalls(c, names, ids) ==
    {[type |-> "call", clientId |-> c, name |-> n, callId |-> k,
      parameters |-> PostedParameters(c)] : n \in names, k \in ids}

\* The messages of the dispatch scenarios: calls of a plain method and of a
\* method nobody registered; exit; a message of a type the session does not
\* know.
DispatchMessages ==
    UNION {PostedCalls(c, {NameSum, NameMissing}, CallIds)
           \cup {[type |-> t, clientId |-> c] : t \in {"exit", "other"}} :
           c \in PostedClientIds}

\* The messages of the lifecycle scenarios: heartbeat, exit, and a call of a
\* plain method.
LifecycleMessages ==
    UNION {PostedCalls(c, {NameSum}, {1}) \cup
           {[type |-> t, clientId |-> c] : t \in {"heartbeat", "exit"}} :
           c \in PostedClientIds}

\* In the lifecycle scenarios the plain method proxies an object.
LifecycleOutcomes == {[kind |-> "proxy", keys |-> <<NameAdd>>]}

\* What the method a message calls can do; one outcome where none is called.
OutcomesFor(msg, outcomes) ==
    IF Invocation(ServerState, msg) # <<>> THEN outcomes
    ELSE {CHOOSE o \in outcomes : TRUE}

\* The messages of the scenarios about proxies: calls of a plain method and
\* of a method of the first proxied object; exit.
ProxyMessages ==
    UNION {{[type |-> "call", clientId |-> c, name |-> n, callId |-> 1,
             parameters |-> <<Num(1)>>] :
               n \in {NameSum, ProxyMethodName(0, NameAdd)}}
           \cup {[type |-> "exit", clientId |-> c]} :
           c \in PostedClientIds}

\* A POST arrives, with any client id the endpoint has or could have given out.
PostWithin(msg, outcome, maxProxies) ==
    /\ OutcomeWithin(ServerState, outcome, maxProxies)
    /\ LET r == OnPost(ServerState, msg, outcome)
       IN  SetServerState(r.st,
               [type |-> "POST", message |-> msg, status |-> r.status,
                invoked |-> Invocation(ServerState, msg),
                outcome |-> IF Invocation(ServerState, msg) # <<>>
                            THEN <<outcome>> ELSE <<>>])

Post(msg, outcome) == PostWithin(msg, outcome, MaxProxies)

\* onRequest, POST, once the body has arrived and JSON.parse has thrown on
\* it: the catch logs the error and returns. The state after it and the
\* responses sent.
OnPostUnparsable(st) == [st |-> st, responses |-> <<>>]

\* A POST arrives whose body is not JSON text.
PostUnparsable ==
    LET r == OnPostUnparsable(ServerState)
    IN  SetServerState(r.st,
            [type |-> "POST", body |-> MalformedPayload, responses |-> r.responses])

\* The wait of the heartbeat loop resolves.
HeartbeatTimer ==
    /\ timers["heartbeat"] # <<>>
    /\ Head(timers["heartbeat"]) <= now
    /\ SetServerState(
           Heartbeat([ServerState EXCEPT !.timers["heartbeat"] = Tail(@)]),
           [type |-> "heartbeat"])

\* The wait of the sweeper loop resolves.
CloseExpiredTimer ==
    /\ timers["closeExpired"] # <<>>
    /\ Head(timers["closeExpired"]) <= now
    /\ SetServerState(
           CloseExpired([ServerState EXCEPT !.timers["closeExpired"] = Tail(@)]),
           [type |-> "closeExpired"])

\* The reverse channel of a connected client closes (the client went away).
ChannelClose(c) ==
    /\ c \in DOMAIN clients
    /\ SetServerState(ChannelGone(ServerState, c, "close"),
                      [type |-> "close", clientId |-> c])

\* The reverse channel of a connected client fails.
ChannelError(c) ==
    /\ c \in DOMAIN clients
    /\ SetServerState(ChannelGone(ServerState, c, "error"),
                      [type |-> "error", clientId |-> c])

\* The application registers a method.
AppRegisterMethod(name, f) ==
    SetServerState(RegisterMethod(ServerState, name, f),
                   [type |-> "registerMethod", name |-> name, f |-> f])

\* The application registers another implementation under a name in use.
AppRegisterAgain(name, f) ==
    /\ name \in DOMAIN methods
    /\ AppRegisterMethod(name, f)

ClosureArguments == {<<Num(7)>>}

\* The application invokes a closure it was given for a callback placeholder.
InvokeClosure(cl, parameters) ==
    /\ cl \in closures
    /\ SetServerState(
           CallClosure(ServerState, cl, parameters),
           [type |-> "closure", closure |-> cl, parameters |-> parameters])

SettleOutcomes ==
    { [kind |-> "return", value |-> Num(3)],
      [kind |-> "throw", value |-> Str(<<"E">>)] }

\* The continuation handleResult attached to the i-th pending promise runs:
\* onResult with the value, or onError with the reason.
Settled(st0, i, outcome) ==
    LET p == st0.pendingResults[i]
        st == [st0 EXCEPT !.pendingResults =
                  SubSeq(@, 1, i - 1) \o SubSeq(@, i + 1, Len(@))]
        run == RunMethod(st, <<>>, outcome)
    IN  PostMessage(run.st, p.clientId,
            IF run.threw
            THEN [type |-> "methodError", callId |-> p.callId,
                  value |-> Str(ToStr(run.value))]
            ELSE [type |-> "methodResult", callId |-> p.callId,
                  value |-> run.value])

\* The promise a registered method returned settles: .then(v => onResult(v))
\* or .catch(err => onError(err)).
Settle(i, outcome) ==
    /\ i \in 1..Len(pendingResults)
    /\ OutcomeWithinBounds(ServerState, outcome)
    /\ LET p == pendingResults[i]
       IN  SetServerState(
               Settled(ServerState, i, outcome),
               [type |-> "settle", clientId |-> p.clientId, callId |-> p.callId,
                outcome |-> outcome])

\* Time passes, up to the next moment a pending wait is due.
Tick ==
    /\ now < MaxTime
    /\ \A n \in TimerNames : timers[n] # <<>> => Head(timers[n]) > now
    /\ now' = Min(Min(now + TickMs, MaxTime),
                  Min(IF timers["heartbeat"] # <<>>
                      THEN Head(timers["heartbeat"]) ELSE MaxTime,
                      IF timers["closeExpired"] # <<>>
                      THEN Head(timers["closeExpired"]) ELSE MaxTime))
    /\ wrote' = <<>>
    /\ event' = [type |-> "tick"]
    /\ UNCHANGED <<clients, methods, sessionIdCounter, uidCounter, timers, removed,
                   closures, pendingResults, history>>

NextDispatch ==
    \/ Get /\ UNCHANGED <<codecVars, clientVars, netVars, actionVars, storageVars>>
    \/ (\E msg \in DispatchMessages :
          \E o \in OutcomesFor(msg, MethodOutcomes) : Post(msg, o))
         /\ UNCHANGED <<codecVars, clientVars, netVars, actionVars, storageVars>>
    \/ (\E c \in DOMAIN clients : ChannelClose(c)) /\ UNCHANGED <<codecVars, clientVars, netVars, actionVars, storageVars>>
    \/ AppRegisterMethod(NameSum, "f1") /\ UNCHANGED <<codecVars, clientVars, netVars, actionVars, storageVars>>
    \/ AppRegisterAgain(NameSum, "f2") /\ UNCHANGED <<codecVars, clientVars, netVars, actionVars, storageVars>>
    \/ (\E cl \in closures, P \in ClosureArguments : InvokeClosure(cl, P))
         /\ UNCHANGED <<codecVars, clientVars, netVars, actionVars, storageVars>>
    \/ (\E i \in 1..Len(pendingResults), o \in SettleOutcomes : Settle(i, o))
         /\ UNCHANGED <<codecVars, clientVars, netVars, actionVars, storageVars>>

NextPost ==
    \/ Get /\ UNCHANGED <<codecVars, clientVars, netVars, actionVars, storageVars>>
    \/ (\E msg \in DispatchMessages :
          \E o \in OutcomesFor(msg, MethodOutcomes) : Post(msg, o))
         /\ UNCHANGED <<codecVars, clientVars, netVars, actionVars, storageVars>>
    \/ PostUnparsable /\ UNCHANGED <<codecVars, clientVars, netVars, actionVars, storageVars>>
    \/ (\E c \in DOMAIN clients : ChannelClose(c)) /\ UNCHANGED <<codecVars, clientVars, netVars, actionVars, storageVars>>
    \/ AppRegisterMethod(NameSum, "f1") /\ UNCHANGED <<codecVars, clientVars, netVars, actionVars, storageVars>>

NextProxy ==
    \/ Get /\ UNCHANGED <<codecVars, clientVars, netVars, actionVars, storageVars>>
    \/ (\E msg \in ProxyMessages :
          \E o \in OutcomesFor(msg, ProxyOutcomes) : PostWithin(msg, o, MaxProxyIds))
         /\ UNCHANGED <<codecVars, clientVars, netVars, actionVars, storageVars>>
    \/ (\E c \in DOMAIN clients : ChannelClose(c)) /\ UNCHANGED <<codecVars, clientVars, netVars, actionVars, storageVars>>
    \/ (\E c \in DOMAIN clients : ChannelError(c)) /\ UNCHANGED <<codecVars, clientVars, netVars, actionVars, storageVars>>
    \/ AppRegisterMethod(NameSum, "f1") /\ UNCHANGED <<codecVars, clientVars, netVars, actionVars, storageVars>>

\* The scenarios about calls in flight: the plain method returns a promise;
\* connections go away by exit, by expiry and by a close of the channel.
InFlightMessages ==
    UNION {PostedCalls(c, {NameSum}, {1}) \cup {[type |-> "exit", clientId |-> c]} :
           c \in PostedClientIds}

InFlightOutcomes == {[kind |-> "promise"]}

NextInFlight ==
    \/ Get /\ UNCHANGED <<codecVars, clientVars, netVars, actionVars, storageVars>>
    \/ (\E msg \in InFlightMessages :
          \E o \in OutcomesFor(msg, InFlightOutcomes) : Post(msg, o))
         /\ UNCHANGED <<codecVars, clientVars, netVars, actionVars, storageVars>>
    \/ HeartbeatTimer /\ UNCHANGED <<codecVars, clientVars, netVars, actionVars, storageVars>>
    \/ CloseExpiredTimer /\ UNCHANGED <<codecVars, clientVars, netVars, actionVars, storageVars>>
    \/ (\E c \in DOMAIN clients : ChannelClose(c)) /\ UNCHANGED <<codecVars, clientVars, netVars, actionVars, storageVars>>
    \/ AppRegisterMethod(NameSum, "f1") /\ UNCHANGED <<codecVars, clientVars, netVars, actionVars, storageVars>>
    \/ (\E i \in 1..Len(pendingResults), o \in SettleOutcomes : Settle(i, o))
         /\ UNCHANGED <<codecVars, clientVars, netVars, actionVars, storageVars>>
    \/ (\E cl \in closures, P \in ClosureArguments : InvokeClosure(cl, P))
         /\ UNCHANGED <<codecVars, clientVars, netVars, actionVars, storageVars>>
    \/ Tick /\ UNCHANGED <<codecVars, clientVars, netVars, actionVars, storageVars>>

NextLifecycle ==
    \/ Get /\ UNCHANGED <<codecVars, clientVars, netVars, actionVars, storageVars>>
    \/ (\E msg \in LifecycleMessages :
          \E o \in OutcomesFor(msg, LifecycleOutcomes) : Post(msg, o))
         /\ UNCHANGED <<codecVars, clientVars, netVars, actionVars, storageVars>>
    \/ HeartbeatTimer /\ UNCHANGED <<codecVars, clientVars, netVars, actionVars, storageVars>>
    \/ CloseExpiredTimer /\ UNCHANGED <<codecVars, clientVars, netVars, actionVars, storageVars>>
    \/ (\E c \in DOMAIN clients : ChannelClose(c)) /\ UNCHANGED <<codecVars, clientVars, netVars, actionVars, storageVars>>
    \/ AppRegisterMethod(NameSum, "f1") /\ UNCHANGED <<codecVars, clientVars, netVars, actionVars, storageVars>>
    \/ Tick /\ UNCHANGED <<codecVars, clientVars, netVars, actionVars, storageVars>>

----------------------------------------------------------------------------
(* A session, the reverse channel of its first connection and the socket   *)
(* that reads it                                                           *)

\* In the ordering scenarios the method invokes the callback it was given a
\* number of times and then returns.
OrderOutcomes ==
    {[kind |-> "callbacks", times |-> k, value |-> Num(3)] : k \in 1..MaxInvocations}

OrderMessages == PostedCalls(Uid(0), {NameSum}, {1})

OrderClosureArguments == {<<Num(7)>>, <<Num(8)>>}

\* The frames among `w` that go to the followed channel, in order.
ToChannel(w) ==
    LET mine == SelectSeq(w, LAMBDA x : x.to = Uid(0))
    IN  [i \in 1..Len(mine) |-> mine[i].frame]

RECURSIVE EncodeFrames(_, _)
EncodeFrames(ms, i) ==
    IF i > Len(ms) THEN <<>> ELSE EncodeFrame(ms[i]) \o EncodeFrames(ms, i + 1)

\* client.reverseChannel.write(view8), for every frame the step has written
\* to the followed connection.
ChannelWrite ==
    LET ms == ToChannel(wrote')
    IN  /\ Len(frames) + Len(ms) <= MaxWritten
        /\ frames' = frames \o ms
        /\ stream' = stream \o EncodeFrames(ms, 1)
        /\ UNCHANGED <<streamEnded, value, dataOffset, buffer, bufferOffset,
                       loopState, handled, dropped>>

\* Where the transport cuts the bytes in flight into chunks: at the end of
\* the first frame, at the end of all of them, inside a header and inside a
\* body.
ChunkCuts ==
    {n \in 1..Len(stream) :
        n \in {Len(stream), 4 + stream[1], 3, 10}}

OrderGet ==
    /\ uidCounter = 0
    /\ Get
    /\ ChannelWrite

OrderPost(msg, outcome) ==
    /\ Post(msg, outcome)
    /\ ChannelWrite

OrderInvokeClosure(cl, parameters) ==
    /\ InvokeClosure(cl, parameters)
    /\ ChannelWrite

NextOrder ==
    \/ OrderGet /\ UNCHANGED <<clientVars, netVars, actionVars, storageVars>>
    \/ AppRegisterMethod(NameSum, "f1") /\ UNCHANGED <<codecVars, clientVars, netVars, actionVars, storageVars>>
    \/ (\E msg \in OrderMessages :
          \E o \in OutcomesFor(msg, OrderOutcomes) : OrderPost(msg, o))
         /\ UNCHANGED <<clientVars, netVars, actionVars, storageVars>>
    \/ (\E cl \in closures, P \in OrderClosureArguments : OrderInvokeClosure(cl, P))
         /\ UNCHANGED <<clientVars, netVars, actionVars, storageVars>>
    \/ (\E n \in ChunkCuts : ReadChunk(n)) /\ UNCHANGED <<clientVars, serverVars, netVars, actionVars, storageVars>>
    \/ ContinueChunk /\ UNCHANGED <<clientVars, serverVars, netVars, actionVars, storageVars>>

----------------------------------------------------------------------------
(* One RpcProxy and the session it talks to *)

\* The fetch of socket s reaches the endpoint, which handles the GET; the
\* response arrives and the socket decodes the `ready` frame.
RpcHandshake(s) ==
    /\ s \in DOMAIN socketState
    /\ socketState[s] = "connecting"
    /\ Get
    /\ LET msg == [type |-> "ready", clientId |-> Uid(uidCounter),
                   sessionId |-> SessionId]
           st == HandleReady([ClientState EXCEPT !.socketState[s] = "open"], msg)
       IN  /\ WithinBounds(st)
           /\ RunHandler(s, st, msg, "ready")
    /\ invoked' = <<>>
    /\ UNCHANGED <<promises, localProxies>>

\* The next call POST of the client reaches the endpoint.
RpcPost(outcome) ==
    /\ delivered < Len(postedCalls)
    /\ Post(postedCalls[delivered + 1], outcome)
    /\ delivered' = delivered + 1

RpcOutcomes == {[kind |-> "return", value |-> Num(3)]}

NextRpc ==
    \/ (\E c \in Calls : PostCall(c.name, c.args))
         /\ UNCHANGED <<codecVars, serverVars, netVars, actionVars, storageVars>>
    \/ SetEndpoint /\ UNCHANGED <<codecVars, serverVars, netVars, actionVars, storageVars>>
    \/ (\E s \in DOMAIN socketState : RpcHandshake(s))
         /\ UNCHANGED <<codecVars, netVars, actionVars, storageVars>>
    \/ Get /\ UNCHANGED <<codecVars, clientVars, netVars, actionVars, storageVars>>
    \/ (\E o \in RpcOutcomes : RpcPost(o)) /\ UNCHANGED <<codecVars, clientVars, actionVars, storageVars>>
    \/ AppRegisterMethod(NameCountDown, "f1") /\ UNCHANGED <<codecVars, clientVars, netVars, actionVars, storageVars>>
    \/ (\E cl \in closures, P \in ClosureArguments : InvokeClosure(cl, P))
         /\ UNCHANGED <<codecVars, clientVars, netVars, actionVars, storageVars>>
    \/ (\E c \in DOMAIN clients : ChannelClose(c))
         /\ UNCHANGED <<codecVars, clientVars, netVars, actionVars, storageVars>>

----------------------------------------------------------------------------
(* Composite actions: SequentialAction and ParallelAction *)

\* Child actions a composite action can be given, at most.
MaxChildren == 2

\* Starts of children a SequentialAction is followed for, at most.
MaxStarts == 4

Children == 1..MaxChildren

\* Action.start of a child: the child runs until it finishes, and the
\* promise start() returned resolves then.
ChildStart(ch, c) == [ch EXCEPT ![c].status = "running"]

\* Action.finish of a child.
ChildFinish(ch, c) == [ch EXCEPT ![c].status = "idle"]

\* Action.stop of a child: a running action is told to stop.
ChildStop(ch, c) ==
    IF ch[c].status = "running" THEN [ch EXCEPT ![c].status = "stopping"] ELSE ch

ActionInit ==
    /\ sequential = [repeat |-> FALSE, enabled |-> TRUE, actions |-> <<>>,
                     pc |-> "idle", snapshot |-> <<>>, i |-> 0,
                     started |-> <<>>, finishCalls |-> 0]
    /\ parallel = [enabled |-> TRUE, destroyed |-> FALSE, actions |-> <<>>,
                   status |-> "idle", pc |-> "idle", awaited |-> {},
                   started |-> <<>>, finishCalls |-> 0, stopCalls |-> <<>>]
    /\ children = [c \in Children |-> [enabled |-> TRUE, status |-> "idle"]]

\* SequentialAction.start, the body of the async function: SeqWhile is the
\* head of `while (repeat && enabled)`, SeqFor the head of the for loop.
\* Each runs on to the next await, to finish(), or for ever.
RECURSIVE SeqWhile(_, _), SeqFor(_, _)
SeqFor(sq, ch) ==
    IF sq.i < Len(sq.snapshot) /\ sq.enabled
    THEN [sq |-> [sq EXCEPT !.pc = "awaiting",
                            !.started = Append(@, sq.snapshot[sq.i + 1])],
          ch |-> ChildStart(ch, sq.snapshot[sq.i + 1])]
    ELSE SeqWhile(sq, ch)

SeqWhile(sq, ch) ==
    IF sq.repeat /\ sq.enabled
    THEN IF sq.actions = <<>>
         THEN [sq |-> [sq EXCEPT !.pc = "spinning"], ch |-> ch]
         ELSE SeqFor([sq EXCEPT !.snapshot = sq.actions, !.i = 0], ch)
    ELSE [sq |-> [sq EXCEPT !.pc = "finished", !.finishCalls = @ + 1], ch |-> ch]

\* SequentialAction.add
SeqAdd(c) ==
    /\ c \notin Range(sequential.actions)
    /\ sequential' = [sequential EXCEPT !.actions = Append(@, c)]
    /\ UNCHANGED <<parallel, children>>

\* The repeat property is set.
SeqSetRepeat(r) ==
    /\ sequential.repeat # r
    /\ sequential' = [sequential EXCEPT !.repeat = r]
    /\ UNCHANGED <<parallel, children>>

\* The enabled property is set.
SeqSetEnabled(e) ==
    /\ sequential.enabled # e
    /\ sequential' = [sequential EXCEPT !.enabled = e]
    /\ UNCHANGED <<parallel, children>>

\* SequentialAction.start: schedules the body with wait(0).
SeqStart ==
    /\ sequential.pc = "idle"
    /\ sequential' = [sequential EXCEPT !.pc = "scheduled"]
    /\ UNCHANGED <<parallel, children>>

\* wait(0) resolves: the body runs to its first await or to finish().
SeqWaitResolves ==
    /\ sequential.pc = "scheduled"
    /\ LET r == SeqWhile(sequential, children)
       IN  /\ Len(r.sq.started) <= MaxStarts
           /\ sequential' = r.sq
           /\ children' = r.ch
    /\ UNCHANGED parallel

\* A running child finishes; if the body awaits its start(), it goes on.
SeqChildFinishes(c) ==
    /\ children[c].status = "running"
    /\ LET ch == ChildFinish(children, c)
           r == IF /\ sequential.pc = "awaiting"
                   /\ sequential.snapshot[sequential.i + 1] = c
                THEN SeqFor([sequential EXCEPT !.i = @ + 1], ch)
                ELSE [sq |-> sequential, ch |-> ch]
       IN  /\ Len(r.sq.started) <= MaxStarts
           /\ sequential' = r.sq
           /\ children' = r.ch
    /\ UNCHANGED parallel

NextSequential ==
    \/ (\E c \in Children : SeqAdd(c)) /\ UNCHANGED <<codecVars, clientVars, serverVars, netVars, storageVars>>
    \/ (\E r \in BOOLEAN : SeqSetRepeat(r)) /\ UNCHANGED <<codecVars, clientVars, serverVars, netVars, storageVars>>
    \/ (\E e \in BOOLEAN : SeqSetEnabled(e)) /\ UNCHANGED <<codecVars, clientVars, serverVars, netVars, storageVars>>
    \/ SeqStart /\ UNCHANGED <<codecVars, clientVars, serverVars, netVars, storageVars>>
    \/ SeqWaitResolves /\ UNCHANGED <<codecVars, clientVars, serverVars, netVars, storageVars>>
    \/ (\E c \in Children : SeqChildFinishes(c)) /\ UNCHANGED <<codecVars, clientVars, serverVars, netVars, storageVars>>

\* The child actions start() is called on: the enabled ones, in the order
\* they were added.
ParEnabledActions(p, ch) == SelectSeq(p.actions, LAMBDA c : ch[c].enabled)

\* ParallelAction.start, the end of the async function: finish() is called
\* on an action that ignores its destruction.
ParAfterAll_IgnoresDestroyed(p) ==
    [p EXCEPT !.pc = "done", !.finishCalls = @ + 1, !.status = "idle"]

\* ParallelAction.start, the end of the async function: finish() unless the
\* action was destroyed meanwhile.
ParAfterAll(p) ==
    IF ~p.destroyed
    THEN [p EXCEPT !.pc = "done", !.finishCalls = @ + 1, !.status = "idle"]
    ELSE [p EXCEPT !.pc = "done"]

RECURSIVE StartEach(_, _)
StartEach(ch, cs) ==
    IF cs = <<>> THEN ch ELSE StartEach(ChildStart(ch, Head(cs)), Tail(cs))

RECURSIVE StopEach(_, _)
StopEach(ch, cs) ==
    IF cs = <<>> THEN ch ELSE StopEach(ChildStop(ch, Head(cs)), Tail(cs))

\* ParallelAction.add
ParAdd(c) ==
    /\ c \notin Range(parallel.actions)
    /\ parallel' = [parallel EXCEPT !.actions = Append(@, c)]
    /\ UNCHANGED <<sequential, children>>

\* The enabled property of the ParallelAction is set.
ParSetEnabled(e) ==
    /\ parallel.enabled # e
    /\ parallel' = [parallel EXCEPT !.enabled = e]
    /\ UNCHANGED <<sequential, children>>

\* The enabled property of a child that is not running is set.
ChildSetEnabled(c, e) ==
    /\ children[c].enabled # e
    /\ children[c].status = "idle"
    /\ children' = [children EXCEPT ![c].enabled = e]
    /\ UNCHANGED <<sequential, parallel>>

\* ParallelAction.start: schedules the body with wait(0); Action.start
\* makes the action running.
ParStart ==
    /\ parallel.pc = "idle"
    /\ ~parallel.destroyed
    /\ parallel' = [parallel EXCEPT !.pc = "scheduled", !.status = "running"]
    /\ UNCHANGED <<sequential, children>>

\* wait(0) resolves: the enabled children are started and their promises
\* awaited together; Promise.all of no promise resolves at once.
ParWaitResolves ==
    /\ parallel.pc = "scheduled"
    /\ LET cs == IF parallel.enabled
                 THEN ParEnabledActions(parallel, children) ELSE <<>>
           p == [parallel EXCEPT !.started = @ \o cs, !.awaited = Range(cs)]
       IN  /\ children' = StartEach(children, cs)
           /\ parallel' = IF cs = <<>> THEN ParAfterAll(p)
                                       ELSE [p EXCEPT !.pc = "awaiting"]
    /\ UNCHANGED sequential

\* A child that runs or is stopping finishes: its promise resolves, and
\* with the last of them Promise.all.
ParChildFinishes(c) ==
    /\ children[c].status \in {"running", "stopping"}
    /\ children' = ChildFinish(children, c)
    /\ parallel' =
           IF parallel.pc = "awaiting" /\ c \in parallel.awaited
           THEN LET p == [parallel EXCEPT !.awaited = @ \ {c}]
                IN  IF p.awaited = {} THEN ParAfterAll(p) ELSE p
           ELSE parallel
    /\ UNCHANGED sequential

\* Action.stop on the running ParallelAction: its status becomes
\* "stopping" and onStatusChanged stops every child.
ParStop ==
    /\ parallel.status = "running"
    /\ parallel' = [parallel EXCEPT !.status = "stopping",
                                    !.stopCalls = @ \o parallel.actions]
    /\ children' = StopEach(children, parallel.actions)
    /\ UNCHANGED sequential

\* The ParallelAction is destroyed: lifeCycleStatus becomes "destroyed".
ParDestroy ==
    /\ ~parallel.destroyed
    /\ parallel' = [parallel EXCEPT !.destroyed = TRUE]
    /\ UNCHANGED <<sequential, children>>

NextParallel ==
    \/ (\E c \in Children : ParAdd(c)) /\ UNCHANGED <<codecVars, clientVars, serverVars, netVars, storageVars>>
    \/ (\E e \in BOOLEAN : ParSetEnabled(e)) /\ UNCHANGED <<codecVars, clientVars, serverVars, netVars, storageVars>>
    \/ (\E c \in Children, e \in BOOLEAN : ChildSetEnabled(c, e)) /\ UNCHANGED <<codecVars, clientVars, serverVars, netVars, storageVars>>
    \/ ParStart /\ UNCHANGED <<codecVars, clientVars, serverVars, netVars, storageVars>>
    \/ ParWaitResolves /\ UNCHANGED <<codecVars, clientVars, serverVars, netVars, storageVars>>
    \/ (\E c \in Children : ParChildFinishes(c)) /\ UNCHANGED <<codecVars, clientVars, serverVars, netVars, storageVars>>
    \/ ParStop /\ UNCHANGED <<codecVars, clientVars, serverVars, netVars, storageVars>>
    \/ ParDestroy /\ UNCHANGED <<codecVars, clientVars, serverVars, netVars, storageVars>>

----------------------------------------------------------------------------
(* FileStorage: one persisted property, read from and saved to a file *)

\* Reads of the storage file that are under way at once, at most.
MaxReads == 2

\* The paths the storage is pointed at; "" is the path of a new FileStorage.
Paths == {"", "a", "b"}

\* The filesystem property: null, or a filesystem object.
Filesystems == {"null", "fs"}

\* The values of the persisted property; "absent" is a document without it.
PropertyValues == {"v1", "v2"}

StorageInit ==
    storage = [ready |-> FALSE, filesystem |-> "null", path |-> "",
               doc |-> "absent", isSet |-> FALSE, value |-> "absent",
               pending |-> <<>>, loaded |-> FALSE, written |-> <<>>]

\* What a step starts from: the writes of the step before are forgotten.
StorageState == [storage EXCEPT !.written = <<>>]

\* FileStorage.readDocument: the read completes later.
ReadDocument(st) ==
    IF st.filesystem # "null" /\ st.path # ""
    THEN [st EXCEPT !.pending = Append(@, [filesystem |-> st.filesystem,
                                           path |-> st.path])]
    ELSE st

\* FileStorage.saveDocument. A write is recorded with the value of ready
\* and with whether a read of the current file has completed.
SaveDocument(st) ==
    IF ~st.ready THEN st
    ELSE IF st.filesystem # "null" /\ st.path # ""
         THEN [st EXCEPT !.written = Append(@, [path |-> st.path, doc |-> st.doc,
                                                ready |-> st.ready,
                                                loaded |-> st.loaded])]
         ELSE st

\* The setter addProperty wraps around a persisted property.
PropertySetter(st, v) ==
    IF ~st.isSet /\ st.doc # "absent"
    THEN [st EXCEPT !.isSet = TRUE, !.value = st.doc]
    ELSE LET s1 == [st EXCEPT !.doc = v]
             s2 == IF s1.ready THEN SaveDocument(s1) ELSE s1
         IN  [s2 EXCEPT !.isSet = TRUE, !.value = v]

\* The filesystem property is set.
SetFilesystem(fs) ==
    /\ Len(storage.pending) < MaxReads
    /\ storage' = ReadDocument([StorageState EXCEPT
                       !.filesystem = fs,
                       !.loaded = @ /\ fs = storage.filesystem])
    /\ UNCHANGED <<codecVars, clientVars, serverVars, netVars, actionVars>>

\* The path property is set.
SetPath(p) ==
    /\ Len(storage.pending) < MaxReads
    /\ storage' = ReadDocument([StorageState EXCEPT
                       !.path = p,
                       !.loaded = @ /\ p = storage.path])
    /\ UNCHANGED <<codecVars, clientVars, serverVars, netVars, actionVars>>

\* The persisted property is assigned.
AssignProperty(v) ==
    /\ storage' = PropertySetter(StorageState, v)
    /\ UNCHANGED <<codecVars, clientVars, serverVars, netVars, actionVars>>

\* A read completes.
ReadCompleted(st, k) ==
    [st EXCEPT !.pending = SubSeq(@, 1, k - 1) \o SubSeq(@, k + 1, Len(@)),
               !.loaded = @ \/ (/\ st.pending[k].path = st.path
                                /\ st.pending[k].filesystem = st.filesystem)]

\* readDocument, the read succeeded: the document replaces the one in
\* memory, the persisted property is assigned from it, ready becomes true.
ReadSucceeds(k, content) ==
    /\ k \in 1..Len(storage.pending)
    /\ LET s1 == [ReadCompleted(StorageState, k) EXCEPT !.doc = content]
           s2 == IF content # "absent" THEN PropertySetter(s1, content) ELSE s1
       IN  storage' = [s2 EXCEPT !.ready = TRUE]
    /\ UNCHANGED <<codecVars, clientVars, serverVars, netVars, actionVars>>

\* readDocument, the read failed: ready becomes true.
ReadFails(k) ==
    /\ k \in 1..Len(storage.pending)
    /\ storage' = [ReadCompleted(StorageState, k) EXCEPT !.ready = TRUE]
    /\ UNCHANGED <<codecVars, clientVars, serverVars, netVars, actionVars>>

NextStorage ==
    \/ \E fs \in Filesystems : SetFilesystem(fs)
    \/ \E p \in Paths : SetPath(p)
    \/ \E v \in PropertyValues : AssignProperty(v)
    \/ \E k \in 1..MaxReads, content \in PropertyValues \cup {"absent"} :
           ReadSucceeds(k, content)
    \/ \E k \in 1..MaxReads : ReadFails(k)


----------------------------------------------------------------------------
(* Specifications *)

Init ==
    /\ CodecInit /\ ClientInit /\ ServerInit /\ delivered = 0
    /\ ActionInit /\ StorageInit

SpecCodec == Init /\ [][NextCodec]_vars

SpecDecoder == Init /\ [][NextDecoder]_vars

SpecClient == Init /\ [][NextClient]_vars

SpecReconstruct == Init /\ [][NextReconstruct]_vars

SpecDispatch == Init /\ [][NextDispatch]_vars

SpecProxy == Init /\ [][NextProxy]_vars

SpecLifecycle == Init /\ [][NextLifecycle]_vars

SpecInFlight == Init /\ [][NextInFlight]_vars

\* The scenarios about the ownership of proxies: the plain method returns
\* the descriptor of an object it has just proxied, a plain value, or a
\* promise, which resolves to either; connections go away by exit.
NextOwnership ==
    \/ Get /\ UNCHANGED <<codecVars, clientVars, netVars, actionVars, storageVars>>
    \/ (\E msg \in InFlightMessages :
          \E o \in OutcomesFor(msg, ProxyOutcomes \cup InFlightOutcomes) : Post(msg, o))
         /\ UNCHANGED <<codecVars, clientVars, netVars, actionVars, storageVars>>
    \/ (\E i \in 1..Len(pendingResults), o \in ProxyOutcomes : Settle(i, o))
         /\ UNCHANGED <<codecVars, clientVars, netVars, actionVars, storageVars>>
    \/ AppRegisterMethod(NameSum, "f1") /\ UNCHANGED <<codecVars, clientVars, netVars, actionVars, storageVars>>

SpecOwnership == Init /\ [][NextOwnership]_vars

\* The scenarios about proxies handed to several clients: the plain method
\* proxies an object, or returns the descriptor of the object it proxied at
\* an earlier call.
SharedOutcomes ==
    {[kind |-> "proxy", keys |-> <<NameAdd>>]}
    \cup {[kind |-> "return", value |-> ProxyObj(0, <<NameAdd>>)] :
             k \in {j \in {0} : sessionIdCounter > 0}}

\* A POST of these scenarios; a client is handed MaxProxyIds descriptors at
\* most.
SharedPost(msg, outcome) ==
    /\ (msg.type = "call" /\ msg.clientId \in DOMAIN clients) =>
           Len(clients[msg.clientId].proxies) < MaxProxyIds
    /\ PostWithin(msg, outcome, MaxProxyIds)

NextShared ==
    \/ Get /\ UNCHANGED <<codecVars, clientVars, netVars, actionVars, storageVars>>
    \/ (\E msg \in ProxyMessages :
          \E o \in OutcomesFor(msg, SharedOutcomes) : SharedPost(msg, o))
         /\ UNCHANGED <<codecVars, clientVars, netVars, actionVars, storageVars>>
    \/ AppRegisterMethod(NameSum, "f1") /\ UNCHANGED <<codecVars, clientVars, netVars, actionVars, storageVars>>

SpecShared == Init /\ [][NextShared]_vars

SpecSequential == Init /\ [][NextSequential]_vars

SpecParallel == Init /\ [][NextParallel]_vars

SpecStorage == Init /\ [][NextStorage]_vars

SpecPost == Init /\ [][NextPost]_vars

SpecQueue == Init /\ [][NextQueue]_vars /\ QueueFairness

SpecRpc == Init /\ [][NextRpc]_vars

SpecOrder == Init /\ [][NextOrder]_vars

----------------------------------------------------------------------------
(* C1: once the decode loop has taken every byte written to the reverse    *)
(* channel, or has left the loop while the channel is still open, the      *)
(* handler has received exactly the written messages, in order, each once, *)
(* whatever the chunking.                                                  *)
C1_RoundTrip ==
    \/ (loopState = "reading" /\ (stream # <<>> \/ value # <<>>))
    \/ (loopState = "ended" /\ streamEnded /\ handled = Append(frames, ExitMsg))
    \/ (loopState = "reading" /\ handled = frames)

----------------------------------------------------------------------------
(* Client-side claims *)

IsPrefix(a, b) == Len(a) <= Len(b) /\ SubSeq(b, 1, Len(a)) = a

\* The promise the application got for the call that was given call id `id`.
PromiseOf(id) == CHOOSE k \in 1..Len(promises) : promises[k].callId = id

(* C2: a methodResult (methodError) frame resolves (rejects) the promise of *)
(* the call that was issued under the frame's callId and no other promise, *)
(* and removes that entry and no other from the pending-call map, whatever *)
(* the order in which the frames of concurrently pending calls arrive.     *)
C2_ResponseRouting ==
    [][received'.type \in {"methodResult", "methodError"} =>
        LET c == received'.callId
            k == PromiseOf(c)
        IN  /\ c \in DOMAIN callMap
            /\ callMap' = [id \in DOMAIN callMap \ {c} |-> callMap[id]]
            /\ promises[k].state = "pending"
            /\ promises'[k].state =
                   (IF received'.type = "methodResult" THEN "resolved" ELSE "rejected")
            /\ promises'[k].value =
                   (IF received'.type = "methodResult"
                    THEN ProcessOutParameter(received'.value) ELSE received'.value)
            /\ \A j \in 1..Len(promises) : j # k => promises'[j] = promises[j]
     ]_vars

\* Two posted calls were pending together and the later one was answered first.
C2_Witness ==
    /\ Len(promises) >= 2
    /\ received.type \in {"methodResult", "methodError"}
    /\ received.callId = promises[2].callId
    /\ promises[2].state # "pending"
    /\ promises[1].state = "pending"
    /\ \E m \in Range(postedCalls) : m.callId = promises[1].callId

\* The call message the proxy is to post for call id `id` under client id c.
CallMessage(c, id) ==
    [type |-> "call", clientId |-> c, name |-> promises[PromiseOf(id)].name,
     callId |-> id, parameters |-> promises[PromiseOf(id)].parameters]

(* C3: a call issued while clientId is empty is appended to the message    *)
(* queue and not posted; the queue only grows until `ready` arrives; the   *)
(* `ready` step posts every queued call once, in issue order, with the     *)
(* client id of the frame and the call's own name, id and parameters, and  *)
(* leaves the queue empty.                                                 *)
C3_CallQueue ==
    [][/\ (Len(promises') > Len(promises) /\ clientId = "") =>
            /\ messageQueue' = Append(messageQueue, promises'[Len(promises')].callId)
            /\ sent' = <<>>
       /\ received'.type # "ready" => IsPrefix(messageQueue, messageQueue')
       /\ received'.type = "ready" =>
            /\ sent' = [i \in 1..Len(messageQueue) |->
                         CallMessage(received'.clientId, messageQueue[i])]
            /\ messageQueue' = <<>>
     ]_vars

\* `ready` has just flushed two calls that were queued.
C3_Witness ==
    /\ received.type = "ready"
    /\ Len(sent) = 2
    /\ sent[1].type = "call" /\ sent[2].type = "call"
    /\ sent[1].callId < sent[2].callId
    /\ messageQueue = <<>>

----------------------------------------------------------------------------
(* Server-side claims *)

\* "No such method to call: " followed by the name, as the claim spells it.
C4_ErrorValue(name) ==
    Str(<<"N", "o", " ", "s", "u", "c", "h", " ", "m", "e", "t", "h", "o", "d",
          " ", "t", "o", " ", "c", "a", "l", "l", ":", " ">> \o name)

(* C4: a call POST of a connected client that names a method missing from  *)
(* the registry writes exactly one frame, to that client: the methodError  *)
(* with the call's callId and the value "No such method to call: <name>";  *)
(* it writes no methodResult and invokes no registered method.             *)
C4_UnknownMethod ==
    [][(/\ event'.type = "POST"
        /\ event'.message.type = "call"
        /\ event'.message.clientId \in DOMAIN clients
        /\ event'.message.name \notin DOMAIN methods) =>
           /\ wrote' = <<[to |-> event'.message.clientId,
                          frame |-> [type |-> "methodError",
                                     callId |-> event'.message.callId,
                                     value |-> C4_ErrorValue(event'.message.name)]]>>
           /\ event'.invoked = <<>>
     ]_vars

\* A connected client has just called the missing method under call id 2,
\* while another method is registered.
C4_Witness ==
    /\ event.type = "POST"
    /\ event.status = 200
    /\ event.message.type = "call"
    /\ event.message.name = NameMissing
    /\ event.message.callId = 2
    /\ NameSum \in DOMAIN methods
    /\ Len(wrote) = 1
    /\ wrote[1].frame.type = "methodError"
    /\ wrote[1].frame.callId = 2

\* The two connections of the scenarios: the first and the second to open.
ConnA == Uid(0)

ConnB == Uid(1)

\* The placeholder {type: "callback", safeCallback: id}, whatever else it holds.
IsPlaceholder(p) == IsObjectOfType(p, "callback") /\ "safeCallback" \in DOMAIN p

\* The client side of C5, on a step that issues a call: every function among
\* the arguments is replaced by a placeholder whose id maps to that function
\* in the callback map, in what is stored and in what is posted, and the
\* other arguments are kept.
C5_Marshalled ==
    Len(promises') > Len(promises) =>
        LET pr == promises'[Len(promises')]
        IN  /\ pr.callId \in DOMAIN callMap'
            /\ callMap'[pr.callId].parameters = pr.parameters
            /\ Len(pr.parameters) = Len(pr.args)
            /\ \A i \in 1..Len(pr.args) :
                 IF pr.args[i].js = "function"
                 THEN /\ IsPlaceholder(pr.parameters[i])
                      /\ pr.parameters[i].safeCallback \in DOMAIN callbackMap'
                      /\ callbackMap'[pr.parameters[i].safeCallback] = pr.args[i]
                 ELSE pr.parameters[i] = pr.args[i]

\* Whatever call is posted carries the stored parameters, no function among them.
C5_Posted ==
    \A k \in 1..Len(sent') :
        sent'[k].type = "call" =>
            /\ \E j \in 1..Len(promises') :
                   /\ promises'[j].callId = sent'[k].callId
                   /\ promises'[j].parameters = sent'[k].parameters
            /\ \A i \in 1..Len(sent'[k].parameters) :
                   sent'[k].parameters[i].js # "function"

\* The server side of C5, on a step that dispatches a call: each placeholder
\* among the parameters reaches the method as a closure over the client id of
\* the call and the placeholder's id, and these are the closures made.
C5_Closures ==
    (event'.type = "POST" /\ event'.invoked # <<>>) =>
        LET msg == event'.message
            given == event'.invoked[1].parameters
        IN  /\ Len(given) = Len(msg.parameters)
            /\ \A i \in 1..Len(given) :
                 IF IsPlaceholder(msg.parameters[i])
                 THEN /\ given[i] \in closures'
                      /\ given[i].clientId = msg.clientId
                      /\ given[i].callback = msg.parameters[i].safeCallback
                 ELSE given[i] = msg.parameters[i]

\* The frame an invocation of the closure is to write.
C5_Frame(closure, parameters) ==
    [to |-> closure.clientId,
     frame |-> [type |-> "callback", callback |-> closure.callback,
                parameters |-> parameters]]

(* C5, as stated: the client replaces every function argument of a call,  *)
(* before the call is stored or posted, by a placeholder whose id maps to  *)
(* the function in the callback map; the server replaces the placeholder  *)
(* by a closure, and each invocation of the closure with parameters P      *)
(* writes one frame {type: "callback", callback: id, parameters: P} to the *)
(* channel of the client that issued the call and to no other.             *)
C5_EveryInvocationWrites ==
    [][/\ C5_Marshalled
       /\ C5_Posted
       /\ C5_Closures
       /\ event'.type = "closure" =>
              wrote' = <<C5_Frame(event'.closure, event'.parameters)>>
     ]_vars

(* C5, amended: as stated, for the invocations made while the client that  *)
(* issued the call is in the connection map; an invocation made after that *)
(* connection has been removed writes nothing, to any channel.             *)
C5_CallbackMarshalling ==
    [][/\ C5_Marshalled
       /\ C5_Posted
       /\ C5_Closures
       /\ event'.type = "closure" =>
              wrote' = (IF event'.closure.clientId \in DOMAIN clients
                        THEN <<C5_Frame(event'.closure, event'.parameters)>>
                        ELSE <<>>)
     ]_vars

\* The proxy has posted a call whose function argument it replaced; the
\* endpoint has dispatched it for the second of two open connections, and
\* the closure has just written the callback frame to that connection.
C5_Witness ==
    /\ event.type = "closure"
    /\ Cardinality(DOMAIN clients) = 2
    /\ event.closure.clientId = clientId
    /\ clientId = ConnB
    /\ event.closure.callback \in DOMAIN callbackMap
    /\ callbackMap[event.closure.callback].js = "function"
    /\ wrote = <<C5_Frame(event.closure, event.parameters)>>

\* Some registered method belongs to the proxy id: its name starts "<id>.".
HasMethodsOf(registry, proxyId) ==
    \E n \in DOMAIN registry : StartsWith(n, Numeral(proxyId) \o <<".">>)

(* C6: a run of the expiry sweeper removes every connection whose expiry  *)
(* timestamp lies before the present moment: the connection leaves the    *)
(* connection map, its reverse channel is ended, and the registry keeps   *)
(* no method "<proxyId>.…" of a proxy id of its proxy list. (The sweep a  *)
(* GET runs sees only the connection that GET has just created.)          *)
C6_ExpirySweep ==
    [][event'.type = "closeExpired" =>
          \A c \in DOMAIN clients :
              clients[c].expires < now =>
                  /\ c \notin DOMAIN clients'
                  /\ c \in DOMAIN removed'
                  /\ removed'[c].ended
                  /\ \A i \in 1..Len(clients[c].proxies) :
                         ~HasMethodsOf(methods', clients[c].proxies[i])
     ]_vars

\* The sweeper has run and a connection that owned a proxy is gone by expiry.
C6_Witness ==
    /\ event.type = "closeExpired"
    /\ \E c \in DOMAIN removed :
          /\ removed[c].by = "expired"
          /\ removed[c].ended
          /\ removed[c].proxies # <<>>
          /\ ~HasMethodsOf(methods, removed[c].proxies[1])

\* Both connections are open and were opened at t = 0; A has sent no
\* heartbeat POST; B has answered the last heartbeat frame it got, with a
\* heartbeat POST received `since` or later.
C7_Scenario(since) ==
    /\ {ConnA, ConnB} \subseteq DOMAIN clients
    /\ history[ConnA].opened = 0
    /\ history[ConnB].opened = 0
    /\ ~history[ConnA].answered
    /\ history[ConnB].answered
    /\ history[ConnB].unanswered = 0
    /\ clients[ConnB].expires >= since + 60000

\* The broadcast at t = 30 s writes one heartbeat frame to A and one to B.
C7_Broadcast ==
    (/\ event'.type = "heartbeat"
     /\ now = 30000
     /\ {ConnA, ConnB} \subseteq DOMAIN clients
     /\ history[ConnA].opened = 0
     /\ history[ConnB].opened = 0) =>
        wrote' = <<[to |-> ConnA, frame |-> [type |-> "heartbeat"]],
                   [to |-> ConnB, frame |-> [type |-> "heartbeat"]]>>

C9_NoTimerWhileIdle ==
    DOMAIN clients = {} => \A n \in TimerNames : timers[n] = <<>>

(* C10: once a connection has left the connection map, whatever destroyed  *)
(* it, the registry holds no method "<proxyId>.<method>" of a proxy id     *)
(* that was in the connection's proxy list.                                *)
C10_NoMethodsOfDestroyed ==
    \A c \in DOMAIN removed :
        \A i \in 1..Len(removed[c].proxies) :
            ~HasMethodsOf(methods, removed[c].proxies[i])

(* C11: registerMethod(n, f) leaves exactly one entry for n in the         *)
(* registry, holding f, and touches no other entry; no other step changes  *)
(* the entry of a plainly registered name; a call of a connected client    *)
(* invokes the implementation the registry holds for the name. Hence after *)
(* registerMethod(n, f1) and registerMethod(n, f2) every call of n invokes *)
(* f2 and never f1.                                                        *)
C11_MethodOverwrite ==
    [][/\ event'.type = "registerMethod" =>
              /\ DOMAIN methods' = DOMAIN methods \cup {event'.name}
              /\ methods'[event'.name] = event'.f
              /\ \A n \in DOMAIN methods \ {event'.name} : methods'[n] = methods[n]
       /\ (event'.type # "registerMethod" /\ NameSum \in DOMAIN methods) =>
              /\ NameSum \in DOMAIN methods'
              /\ methods'[NameSum] = methods[NameSum]
       /\ (/\ event'.type = "POST"
           /\ event'.message.type = "call"
           /\ event'.message.clientId \in DOMAIN clients
           /\ event'.message.name \in DOMAIN methods) =>
              /\ Len(event'.invoked) = 1
              /\ event'.invoked[1].function = methods[event'.message.name]
     ]_vars

\* "sum" was registered with f1 and then again with f2 (f2 is only ever
\* registered over an entry, and the first entry of "sum" is f1); a connected
\* client has just called "sum" and f2 was invoked.
C11_Witness ==
    /\ event.type = "POST"
    /\ event.message.type = "call"
    /\ event.message.name = NameSum
    /\ event.status = 200
    /\ Len(event.invoked) = 1
    /\ event.invoked[1].function = "f2"
    /\ DOMAIN methods = {NameSum}

\* The string form of an error: a string is itself, an Error with message m
\* reads "Error: m".
C12_StringForm(err) ==
    IF err.js = "string" THEN err.s
    ELSE <<"E", "r", "r", "o", "r", ":", " ">> \o err.error

\* The frame that reports error `err` for call `callId` to client c.
C12_ErrorFrame(c, callId, err) ==
    [to |-> c,
     frame |-> [type |-> "methodError", callId |-> callId,
                value |-> Str(C12_StringForm(err))]]

\* A registered method throws: the POST step writes the methodError of the
\* call and nothing else, is answered 200, and leaves the connection map and
\* the registry as they were.
C12_SyncThrow ==
    (/\ event'.type = "POST"
     /\ event'.outcome # <<>>
     /\ event'.outcome[1].kind = "throw") =>
        /\ wrote' = <<C12_ErrorFrame(event'.message.clientId, event'.message.callId,
                                     event'.outcome[1].value)>>
        /\ event'.status = 200
        /\ clients' = clients
        /\ methods' = methods

(* C12, as stated: a registered method that throws, or whose promise        *)
(* rejects, makes the server write exactly one frame, the methodError with  *)
(* the call's callId and the string form of the error, and no methodResult; *)
(* the connection map and the registry stay as they were.                   *)
C12_AlwaysOneErrorFrame ==
    [][/\ C12_SyncThrow
       /\ (event'.type = "settle" /\ event'.outcome.kind = "throw") =>
              /\ wrote' = <<C12_ErrorFrame(event'.clientId, event'.callId,
                                           event'.outcome.value)>>
              /\ clients' = clients
              /\ methods' = methods
     ]_vars

(* C12, amended: as stated when the method throws; when its promise        *)
(* rejects, the one methodError frame is written if the calling connection *)
(* is still in the connection map, and no frame at all if it has been      *)
(* removed meanwhile; the connection map and the registry stay as they     *)
(* were in both cases.                                                     *)
C12_ErrorsContained ==
    [][/\ C12_SyncThrow
       /\ (event'.type = "settle" /\ event'.outcome.kind = "throw") =>
              /\ wrote' = (IF event'.clientId \in DOMAIN clients
                           THEN <<C12_ErrorFrame(event'.clientId, event'.callId,
                                                 event'.outcome.value)>>
                           ELSE <<>>)
              /\ clients' = clients
              /\ methods' = methods
     ]_vars

\* The promise a method returned for the call of a client that is still
\* connected has just rejected, and the methodError of that call was written
\* to that client.
C12_Witness ==
    /\ event.type = "settle"
    /\ event.outcome.kind = "throw"
    /\ event.clientId \in DOMAIN clients
    /\ wrote = <<[to |-> event.clientId,
                  frame |-> [type |-> "methodError", callId |-> event.callId,
                             value |-> Str(<<"E">>)]]>>

(* C13: when a registered method returns synchronously a value that is     *)
(* neither a promise nor a proxy descriptor, the POST step writes exactly   *)
(* one frame, to the calling client: the methodResult with the call's      *)
(* callId and that value; it writes no methodError.                         *)
C13_SyncResult ==
    [][(/\ event'.type = "POST"
        /\ event'.outcome # <<>>
        /\ event'.outcome[1].kind = "return") =>
           wrote' = <<[to |-> event'.message.clientId,
                       frame |-> [type |-> "methodResult",
                                  callId |-> event'.message.callId,
                                  value |-> event'.outcome[1].value]]>>
     ]_vars

\* Frame w is a response to call `callId` of client c.
C14_IsResponse(w, c, callId) ==
    /\ w.to = c
    /\ w.frame.type \in {"methodResult", "methodError"}
    /\ w.frame.callId = callId

C14_NoResponse ==
    \A i \in 1..Len(wrote') : wrote'[i].frame.type \notin {"methodResult", "methodError"}

(* C14: the dispatch of a call of a connected client either writes exactly *)
(* one response frame with the call's callId to that client, or, when the  *)
(* method returned a promise, writes nothing and leaves the call pending;  *)
(* when the promise of a pending call settles, the call stops being        *)
(* pending and, if its client is still connected, exactly one response     *)
(* frame with its callId is written to that client: the methodResult with  *)
(* the resolved value, or the methodError on rejection; no other step      *)
(* writes a response frame or changes what is pending. So each call gets   *)
(* one response, and a call received later can be answered earlier.        *)
C14_OneResponsePerCall ==
    [][/\ (/\ event'.type = "POST"
           /\ event'.message.type = "call"
           /\ event'.message.clientId \in DOMAIN clients) =>
              IF event'.outcome # <<>> /\ event'.outcome[1].kind = "promise"
              THEN /\ wrote' = <<>>
                   /\ pendingResults' =
                          Append(pendingResults,
                                 [clientId |-> event'.message.clientId,
                                  callId |-> event'.message.callId])
              ELSE /\ Len(wrote') = 1
                   /\ C14_IsResponse(wrote'[1], event'.message.clientId,
                                     event'.message.callId)
                   /\ pendingResults' = pendingResults
       /\ event'.type = "settle" =>
              \E i \in 1..Len(pendingResults) :
                  /\ pendingResults[i] = [clientId |-> event'.clientId,
                                          callId |-> event'.callId]
                  /\ pendingResults' = SubSeq(pendingResults, 1, i - 1)
                                          \o SubSeq(pendingResults, i + 1,
                                                    Len(pendingResults))
                  /\ event'.clientId \in DOMAIN clients =>
                         /\ Len(wrote') = 1
                         /\ C14_IsResponse(wrote'[1], event'.clientId, event'.callId)
                         /\ wrote'[1].frame.type =
                                (IF event'.outcome.kind = "throw"
                                 THEN "methodError" ELSE "methodResult")
                         /\ event'.outcome.kind = "return" =>
                                wrote'[1].frame.value = event'.outcome.value
       /\ (\/ event'.type \notin {"POST", "settle"}
           \/ (event'.type = "POST" /\ event'.message.type # "call")
           \/ (event'.type = "POST" /\ event'.message.clientId \notin DOMAIN clients)) =>
              /\ C14_NoResponse
              /\ pendingResults' = pendingResults
     ]_vars

\* Call 2 of a client has just been answered while call 1 of the same
\* client, received before it, still waits for its promise.
C14_Witness ==
    /\ event.type = "POST"
    /\ event.message.type = "call"
    /\ event.message.callId = 2
    /\ Len(wrote) = 1
    /\ C14_IsResponse(wrote[1], event.message.clientId, 2)
    /\ pendingResults = <<[clientId |-> event.message.clientId, callId |-> 1]>>

(* C15: a POST that names a client id missing from the connection map is   *)
(* answered 500, invokes no method, writes no frame and leaves the         *)
(* connection map (so every expiry), the registry, the record of destroyed *)
(* connections and the pending waits as they were; a POST of a connected   *)
(* client is answered 200 and dispatched: a heartbeat sets the expiry of   *)
(* the connection, an exit removes the connection, a call of a registered  *)
(* method invokes it.                                                      *)
C15_PostRouting ==
    [][event'.type = "POST" =>
          IF event'.message.clientId \notin DOMAIN clients
          THEN /\ event'.status = 500
               /\ event'.invoked = <<>>
               /\ wrote' = <<>>
               /\ clients' = clients
               /\ methods' = methods
               /\ removed' = removed
               /\ timers' = timers
          ELSE /\ event'.status = 200
               /\ event'.message.type = "heartbeat" =>
                      clients'[event'.message.clientId].expires = now + 60000
               /\ event'.message.type = "exit" =>
                      event'.message.clientId \notin DOMAIN clients'
               /\ (/\ event'.message.type = "call"
                   /\ event'.message.name \in DOMAIN methods) =>
                      Len(event'.invoked) = 1
     ]_vars

\* A heartbeat POST has just arrived for a connection that the sweeper had
\* removed: it was answered 500 and the connection is still gone, while
\* another connection is open.
C15_Witness ==
    /\ event.type = "POST"
    /\ event.message.type = "heartbeat"
    /\ event.status = 500
    /\ event.message.clientId \in DOMAIN removed
    /\ removed[event.message.clientId].by = "expired"
    /\ event.message.clientId \notin DOMAIN clients
    /\ DOMAIN clients # {}

(* C16: a GET registers a connection under a client id that no connection, *)
(* open or destroyed, has had, and the first frame of the step is the      *)
(* ready frame with that id and the session id, written to the new         *)
(* connection; a frame is only ever written to a connection that is in the *)
(* connection map before the step or to the one the step's GET has         *)
(* created. So `ready` is the first frame on every reverse channel.        *)
C16_Handshake ==
    [][/\ event'.type = "GET" =>
              /\ event'.clientId \notin DOMAIN clients
              /\ event'.clientId \notin DOMAIN removed
              /\ DOMAIN clients' = DOMAIN clients \cup {event'.clientId}
              /\ wrote' # <<>>
              /\ wrote'[1] = [to |-> event'.clientId,
                              frame |-> [type |-> "ready",
                                         clientId |-> event'.clientId,
                                         sessionId |-> SessionId]]
       /\ \A i \in 1..Len(wrote') :
              \/ wrote'[i].to \in DOMAIN clients
              \/ (event'.type = "GET" /\ wrote'[i].to = event'.clientId)
     ]_vars

\* After the first connection was destroyed a GET has just opened another,
\* under another id: it wrote `ready` and then, starting the heartbeat loop,
\* a heartbeat frame to the new connection.
C16_Witness ==
    /\ event.type = "GET"
    /\ DOMAIN clients = {event.clientId}
    /\ DOMAIN removed # {}
    /\ Len(wrote) = 2
    /\ wrote[1].to = event.clientId
    /\ wrote[1].frame.type = "ready"
    /\ wrote[1].frame.clientId = event.clientId
    /\ wrote[2] = [to |-> event.clientId, frame |-> [type |-> "heartbeat"]]

(* C17: a socket whose read loop was running ends only with the synthetic  *)
(* exit handed to the proxy's handler, and a connection attempt ends with  *)
(* it when the fetch fails; after the handler has run on an exit, the      *)
(* callback map holds none of the callback ids registered before, the list *)
(* of callback ids is empty and clientId is the empty string.              *)
C17_ExitClears ==
    [][/\ \A s \in DOMAIN socketState :
              (socketState[s] \in {"open", "ready", "cancelled"}
                  /\ socketState'[s] = "ended") => received' = ExitMsg
       /\ received'.type = "exit" =>
              /\ \A id \in DOMAIN callbackMap \cup Range(callbacks) :
                     id \notin DOMAIN callbackMap'
              /\ callbacks' = <<>>
              /\ clientId' = ""
     ]_vars

\* The handler has just run on an exit after a call with a function argument
\* had been posted on a ready connection: the callback handle of that call
\* is gone, the call is still pending.
C17_Witness ==
    /\ received = ExitMsg
    /\ clientId = ""
    /\ callbacks = <<>>
    /\ \E m \in Range(postedCalls) :
          /\ m.callId \in DOMAIN callMap
          /\ \E i \in 1..Len(m.parameters) :
                 /\ IsObjectOfType(m.parameters[i], "callback")
                 /\ m.parameters[i].safeCallback \notin DOMAIN callbackMap

(* C18: whenever the handler runs on a heartbeat frame, the proxy posts    *)
(* exactly one message, {type: "heartbeat", clientId}, with its current    *)
(* client id, and that id is the one a connection that is ready has        *)
(* received in its `ready` frame.                                          *)
C18_HeartbeatReply ==
    [][received'.type = "heartbeat" =>
          /\ sent' = <<[type |-> "heartbeat", clientId |-> clientId]>>
          /\ \E s \in DOMAIN socketState :
                 socketState[s] = "ready" /\ clientId = ClientIdFor(s)
     ]_vars

(* C19: a call issued while the proxy has no socket starts a connection    *)
(* attempt (a new socket, connecting) and is appended to the message queue *)
(* without being posted; a queued call is posted only by a step that       *)
(* handles `ready`.                                                        *)
C19_ReconnectOnCall ==
    [][/\ (Len(promises') > Len(promises) /\ socket = <<>>) =>
              /\ socket' # <<>>
              /\ socket'[1] \notin DOMAIN socketState
              /\ socketState'[socket'[1]] = "connecting"
              /\ messageQueue' =
                     Append(messageQueue, promises'[Len(promises')].callId)
              /\ sent' = <<>>
       /\ \A k \in 1..Len(sent') :
              (sent'[k].type = "call" /\ sent'[k].callId \in Range(messageQueue)) =>
                  received'.type = "ready"
     ]_vars

\* "<id>.<m>", as the claim spells it.
C20_MethodName(id, m) == Numeral(id) \o <<".">> \o m

(* C20: when a registered method returns the descriptor of an object it    *)
(* has just proxied, the POST step writes exactly one frame, to the        *)
(* calling client: the methodResult with the call's callId and the         *)
(* descriptor, whose methods are the function-valued keys of the object;   *)
(* the descriptor's instance id is appended to the proxy list of the       *)
(* calling connection and to no other; "<id>.<m>" is registered for every  *)
(* method m of the descriptor; and the id is new: no proxy list, of an     *)
(* open or of a destroyed connection, holds it and no registered name      *)
(* starts with "<id>." before the step.                                    *)
C20_ProxyReturn ==
    [][(/\ event'.type = "POST"
        /\ event'.outcome # <<>>
        /\ event'.outcome[1].kind = "proxy") =>
           /\ Len(wrote') = 1
           /\ wrote'[1].to = event'.message.clientId
           /\ wrote'[1].frame.type = "methodResult"
           /\ wrote'[1].frame.callId = event'.message.callId
           /\ IsObjectOfType(wrote'[1].frame.value, "proxy")
           /\ wrote'[1].frame.value.methods = event'.outcome[1].keys
           /\ LET c == event'.message.clientId
                  d == wrote'[1].frame.value
              IN  /\ clients'[c].proxies = Append(clients[c].proxies, d.instance)
                  /\ \A c2 \in DOMAIN clients \ {c} : clients'[c2] = clients[c2]
                  /\ \A i \in 1..Len(d.methods) :
                         C20_MethodName(d.instance, d.methods[i]) \in DOMAIN methods'
                  /\ \A c2 \in DOMAIN clients : d.instance \notin Range(clients[c2].proxies)
                  /\ \A c2 \in DOMAIN removed : d.instance \notin Range(removed[c2].proxies)
                  /\ ~HasMethodsOf(methods, d.instance)
     ]_vars

\* A method has just returned the descriptor of a second proxied object to a
\* client that already owned the first: the proxy list of the connection is
\* <<0, 1>> and "0.add" and "1.add" are both registered.
C20_Witness ==
    /\ event.type = "POST"
    /\ event.outcome # <<>>
    /\ event.outcome[1].kind = "proxy"
    /\ clients[event.message.clientId].proxies = <<0, 1>>
    /\ wrote[1].frame.value = ProxyObj(1, <<NameAdd>>)
    /\ {C20_MethodName(0, NameAdd), C20_MethodName(1, NameAdd)} \subseteq DOMAIN methods

----------------------------------------------------------------------------
\* The shape { type: "proxy", instance: i, methods: M }.
C21_ProxyShape(v) ==
    IsObjectOfType(v, "proxy") /\ {"instance", "methods"} \subseteq DOMAIN v

\* What the application gets for a value v of a methodResult frame or of a
\* callback frame: an object with one function per name of the descriptor,
\* or v itself.
C21_Delivered(v, d) ==
    IF C21_ProxyShape(v)
    THEN /\ d.js = "object"
         /\ {"standInFor", "members"} \subseteq DOMAIN d
         /\ d.standInFor = v.instance
         /\ d.members = v.methods
    ELSE d = v

\* The last promise was made by a function of a rebuilt proxy.
C21_ByProxy(p) ==
    \E proxy \in {q \in localProxies : "members" \in DOMAIN q} :
      \E i \in 1..Len(proxy.members) :
        p.name = Numeral(proxy.standInFor) \o <<".">> \o proxy.members[i]

(* C21: a methodResult value or a callback parameter of the shape          *)
(* {type:"proxy", instance:i, methods:M} reaches the application as an     *)
(* object with one function per name in M, and every other value (null     *)
(* included) reaches it unchanged. Calling the function for m with         *)
(* arguments A stores a pending call under a call id that no pending call, *)
(* earlier call or callback has, named "<i>.<m>", whose parameters are A   *)
(* with every function replaced by a callback placeholder that maps to it  *)
(* in the callback map; the call message is posted at once when the client *)
(* id is known and is queued otherwise.                                    *)
C21_ProxyReconstruction ==
    [][/\ (received'.type = "methodResult" /\ received'.callId \in DOMAIN callMap) =>
            LET k == PromiseOf(received'.callId)
            IN  /\ promises'[k].state = "resolved"
                /\ C21_Delivered(received'.value, promises'[k].value)
                /\ C21_ProxyShape(received'.value) => promises'[k].value \in localProxies'
       /\ (received'.type = "callback" /\ invoked' # <<>>) =>
            /\ Len(invoked'[1].parameters) = Len(received'.parameters)
            /\ \A i \in 1..Len(received'.parameters) :
                   /\ C21_Delivered(received'.parameters[i], invoked'[1].parameters[i])
                   /\ C21_ProxyShape(received'.parameters[i]) =>
                          invoked'[1].parameters[i] \in localProxies'
       /\ (Len(promises') = Len(promises) + 1 /\ C21_ByProxy(promises'[Len(promises')])) =>
            LET p == promises'[Len(promises')]
                m == [type |-> "call", clientId |-> clientId, name |-> p.name,
                      callId |-> p.callId, parameters |-> p.parameters]
            IN  /\ p.callId \notin DOMAIN callMap
                /\ p.callId \notin {promises[k].callId : k \in 1..Len(promises)}
                /\ p.callId \notin DOMAIN callbackMap' \cup Range(callbacks')
                /\ DOMAIN callMap' = DOMAIN callMap \cup {p.callId}
                /\ callMap'[p.callId].name = p.name
                /\ callMap'[p.callId].parameters = p.parameters
                /\ Len(p.parameters) = Len(p.args)
                /\ \A i \in 1..Len(p.args) :
                       IF p.args[i].js = "function"
                       THEN /\ IsPlaceholder(p.parameters[i])
                            /\ p.parameters[i].safeCallback \notin DOMAIN callbackMap
                            /\ p.parameters[i].safeCallback \in DOMAIN callbackMap'
                            /\ callbackMap'[p.parameters[i].safeCallback] = p.args[i]
                       ELSE p.parameters[i] = p.args[i]
                /\ IF clientId # ""
                   THEN sent' = <<m>> /\ messageQueue' = messageQueue
                   ELSE sent' = <<>> /\ messageQueue' = Append(messageQueue, p.callId)
     ]_vars

\* The application has just called add of the proxy rebuilt for instance 0
\* with a function: the call "0.add" was posted with a placeholder for it.
C21_Witness ==
    /\ Len(sent) = 1
    /\ sent[1].type = "call"
    /\ sent[1].name = <<"0", ".", "a", "d", "d">>
    /\ IsPlaceholder(sent[1].parameters[1])
    /\ LocalProxy(0, <<NameAdd>>) \in localProxies
    /\ \E k \in 1..Len(promises) :
           promises[k].state = "resolved" /\ promises[k].value = LocalProxy(0, <<NameAdd>>)

----------------------------------------------------------------------------
\* The ids handed out for one call, in the order they were taken: the
\* callback ids of its function arguments, then its call id.
C22_IdsOf(p) ==
    LET placeholders == SelectSeq(p.parameters, IsPlaceholder)
    IN  [i \in 1..Len(placeholders) |-> placeholders[i].safeCallback] \o <<p.callId>>

\* The ids handed out for the first k calls, in order.
RECURSIVE C22_Issued(_)
C22_Issued(k) ==
    IF k = 0 THEN <<>> ELSE C22_Issued(k - 1) \o C22_IdsOf(promises[k])

(* C22: the call ids and callback ids the client module has handed out,    *)
(* taken in the order of issue, are strictly increasing and below the      *)
(* counter, so no two of them are equal and no callback id is a call id;   *)
(* the pending-call map holds, under each call id, the entry of the one    *)
(* call that was given that id, and only for calls still pending; every    *)
(* callback id in the callback map was handed out for the function it maps *)
(* to.                                                                     *)
C22_IdUniqueness ==
    LET ids == C22_Issued(Len(promises))
    IN  /\ \A i, j \in 1..Len(ids) : i < j => ids[i] < ids[j]
        /\ \A i \in 1..Len(ids) : ids[i] < idCounter
        /\ \A id \in DOMAIN callMap :
               \E k \in 1..Len(promises) :
                   /\ promises[k].callId = id
                   /\ promises[k].state = "pending"
                   /\ callMap[id].promise = k
                   /\ callMap[id].name = promises[k].name
                   /\ \A j \in 1..Len(promises) : promises[j].callId = id => j = k
        /\ \A id \in DOMAIN callbackMap :
               \E k \in 1..Len(promises) : \E i \in 1..Len(promises[k].args) :
                   /\ IsPlaceholder(promises[k].parameters[i])
                   /\ promises[k].parameters[i].safeCallback = id
                   /\ callbackMap[id] = promises[k].args[i]

\* Two calls have been issued and posted, one of them with a function
\* argument, and both are pending together: three ids are in use.
C22_Witness ==
    /\ Len(promises) = 2
    /\ Len(C22_Issued(2)) = 3
    /\ Cardinality(DOMAIN callMap) = 2
    /\ Cardinality(DOMAIN callbackMap) = 1
    /\ Len(postedCalls) = 2

----------------------------------------------------------------------------
\* What the handler has received, the synthetic exit left out.
C23_Received(h) == SelectSeq(h, LAMBDA m : m # ExitMsg)

C23_CallbackFrame(id, parameters) ==
    [type |-> "callback", callback |-> id, parameters |-> parameters]

(* C23: on the reverse channel of one connection, the frames the handler   *)
(* of the client has received are, at every moment, the first frames the   *)
(* server wrote to that channel, in the order it wrote them and each once. *)
(* Every invocation of a callback closure writes its callback frame in     *)
(* that very step, after every frame written before, so the callback       *)
(* frames of one callback id arrive in the order of the invocations; and a *)
(* synchronous method that invokes its callback closure k times (with 1,   *)
(* 2, ... k) before it returns writes those k callback frames, in that     *)
(* order, and the methodResult frame of the call after them.               *)
C23_Ordering ==
    [][/\ frames' # frames => frames' = frames \o ToChannel(wrote')
       /\ (event'.type = "closure" /\ frames' # frames) =>
              ToChannel(wrote') =
                  <<C23_CallbackFrame(event'.closure.callback, event'.parameters)>>
       /\ (/\ event'.type = "POST"
           /\ event'.outcome # <<>>
           /\ event'.outcome[1].kind = "callbacks"
           /\ frames' # frames) =>
              LET k == event'.outcome[1].times
                  id == SelectSeq(event'.message.parameters, IsPlaceholder)[1].safeCallback
                  w == ToChannel(wrote')
              IN  /\ Len(w) = k + 1
                  /\ \A i \in 1..k : w[i] = C23_CallbackFrame(id, <<Num(i)>>)
                  /\ w[k + 1] = [type |-> "methodResult",
                                 callId |-> event'.message.callId,
                                 value |-> event'.outcome[1].value]
       /\ IsPrefix(C23_Received(handled'), frames')
       /\ \A i \in 1..(Len(handled') - 1) : handled'[i] # ExitMsg
     ]_vars

\* The handler has received all six frames of a connection: ready, the first
\* heartbeat, the two callback frames of a method that invoked its callback
\* twice, the methodResult of that call and the callback frame of a later
\* invocation of the closure.
C23_Witness ==
    /\ Len(frames) = 6
    /\ handled = frames
    /\ handled[3] = C23_CallbackFrame(1, <<Num(1)>>)
    /\ handled[4] = C23_CallbackFrame(1, <<Num(2)>>)
    /\ handled[5].type = "methodResult"
    /\ handled[6].type = "callback"

----------------------------------------------------------------------------
\* The frames written whose payload is valid JSON, in order.
C24_Valid(written) == SelectSeq(written, LAMBDA m : m # MalformedMsg)

(* C24: once the decoder has completed a frame whose payload is not valid  *)
(* JSON, and while the server has not ended the channel, the handler gets  *)
(* no synthetic exit and nothing for a malformed frame: what it has        *)
(* received are the first valid frames written, in order, and all of them  *)
(* once the decoder has taken every byte written.                          *)
C24_MalformedDropped ==
    (dropped > 0 /\ ~streamEnded) =>
        /\ loopState = "reading"
        /\ ExitMsg \notin Range(handled)
        /\ IsPrefix(handled, C24_Valid(frames))
        /\ (stream = <<>> /\ value = <<>>) => handled = C24_Valid(frames)

----------------------------------------------------------------------------
\* The step removes a connection: an exit message, a sweep or a close of the
\* reverse channel.
C25_Removes == DOMAIN removed' # DOMAIN removed

----------------------------------------------------------------------------
\* The client ids of the connections that were removed by an exit message.
C26_Exited == {c \in DOMAIN removed : removed[c].by = "exit"}

(* C26: the POST of an exit message of a connected client is answered 200  *)
(* and leaves that client id out of the connection map, with its reverse   *)
(* channel ended; from then on the client id is never in the map again,    *)
(* every POST that names it is answered 500, and no step (heartbeat run,   *)
(* closure invocation, settling promise, any POST) writes a frame for it.  *)
C26_ExitMessage ==
    [][/\ (/\ event'.type = "POST"
           /\ event'.message.type = "exit"
           /\ event'.message.clientId \in DOMAIN clients) =>
              /\ event'.status = 200
              /\ event'.message.clientId \notin DOMAIN clients'
              /\ event'.message.clientId \in C26_Exited'
              /\ removed'[event'.message.clientId].ended
       /\ \A c \in C26_Exited :
              /\ c \notin DOMAIN clients'
              /\ c \in C26_Exited'
              /\ (event'.type = "POST" /\ event'.message.clientId = c) =>
                     event'.status = 500
              /\ \A i \in 1..Len(wrote') : wrote'[i].to # c
     ]_vars

\* A call POST that names a client removed by an exit message has just been
\* answered 500, while another connection is open.
C26_Witness ==
    /\ event.type = "POST"
    /\ event.message.type = "call"
    /\ event.message.clientId \in C26_Exited
    /\ event.status = 500
    /\ DOMAIN clients # {}

----------------------------------------------------------------------------
\* The number of bytes of the first k frames written to the channel.
C27_Boundary(k) == Len(EncodeFrames(SubSeq(frames, 1, k), 1))

\* The position in the channel's bytes of the next byte the transport will
\* hand over.
C27_Taken == C27_Boundary(Len(frames)) - Len(stream)

\* The chunk of `len` bytes that ends at C27_Taken is made of the whole
\* frames i..j, two or more.
C27_WholeFrames(len, i, j) ==
    /\ i \in 1..Len(frames)
    /\ j \in (i + 1)..Len(frames)
    /\ C27_Boundary(i - 1) = C27_Taken - len
    /\ C27_Boundary(j) = C27_Taken

\* The same of the chunk of `len` bytes that starts at C27_Taken.
C27_WholeFramesAhead(len, i, j) ==
    /\ i \in 1..Len(frames)
    /\ j \in (i + 1)..Len(frames)
    /\ C27_Boundary(i - 1) = C27_Taken
    /\ C27_Boundary(j) = C27_Taken + len

(* C27: when read() hands over a chunk made of two or more whole frames,   *)
(* the pass that read it dispatches the first of them and keeps the chunk; *)
(* every following pass works on the same chunk without reading, and       *)
(* dispatches the next frame of the chunk, so that the handler receives    *)
(* the frames of the chunk in the order written; the chunk is let go only  *)
(* after its last frame, and no synthetic exit is dispatched.              *)
C27_SeveralFramesPerChunk ==
    [][/\ (/\ loopState = "reading" /\ value = <<>> /\ buffer = <<>>
           /\ frames' = frames /\ stream' # stream) =>
              \A i, j \in 1..Len(frames) :
                  C27_WholeFramesAhead(Len(stream) - Len(stream'), i, j) =>
                      /\ loopState' = "reading"
                      /\ handled' = Append(handled, frames[i])
                      /\ value' # <<>>
                      /\ buffer' = <<>>
                      /\ dataOffset' = C27_Boundary(i) - C27_Boundary(i - 1)
       /\ (/\ loopState = "reading" /\ value # <<>>
           /\ frames' = frames /\ streamEnded' = streamEnded) =>
              \A i, j \in 1..Len(frames) :
                  C27_WholeFrames(Len(value[1]), i, j) =>
                      \A k \in (i + 1)..j :
                          dataOffset = C27_Boundary(k - 1) - C27_Boundary(i - 1) =>
                              /\ stream' = stream
                              /\ loopState' = "reading"
                              /\ handled' = Append(handled, frames[k])
                              /\ buffer' = <<>>
                              /\ value' = (IF k = j THEN <<>> ELSE value)
                              /\ dataOffset' = C27_Boundary(k) - C27_Boundary(i - 1)
     ]_vars

\* Two frames arrived in one chunk and the handler has received both, in
\* the order written, with nothing left to read.
C27_Witness ==
    /\ Len(frames) = 2
    /\ frames[1] # frames[2]
    /\ handled = frames
    /\ loopState = "reading"
    /\ stream = <<>> /\ value = <<>>
    /\ dataOffset = C27_Boundary(2)

----------------------------------------------------------------------------
\* The frame the decoder is collecting, by the number of frames dispatched.
C28_Current == Len(handled) + 1

(* C28: when read() hands over, at a frame boundary, a chunk that holds   *)
(* the 4-byte header of a frame and only a part of its body, the pass      *)
(* copies that part to the start of the buffer, dispatches nothing and     *)
(* stays in the loop; every later chunk is copied at the buffer offset     *)
(* reached so far, and the message is dispatched, once, by the pass that   *)
(* copies its last byte, also when the chunk goes on with the head of the  *)
(* next frame; no synthetic exit is dispatched.                            *)
C28_SplitBody ==
    [][/\ (/\ loopState = "reading" /\ value = <<>> /\ buffer = <<>>
           /\ frames' = frames /\ stream' # stream
           /\ C28_Current \in 1..Len(frames)
           /\ C27_Taken = C27_Boundary(C28_Current - 1)
           /\ Len(stream) - Len(stream') >= 4
           /\ C27_Taken + (Len(stream) - Len(stream')) < C27_Boundary(C28_Current)) =>
              /\ loopState' = "reading"
              /\ handled' = handled
              /\ buffer' # <<>>
              /\ bufferOffset' = Len(stream) - Len(stream') - 4
              /\ IsPrefix(SubSeq(buffer'[1], 1, bufferOffset'),
                          JsonStringify(frames[C28_Current]))
       /\ (/\ loopState = "reading" /\ value = <<>> /\ buffer # <<>>
           /\ frames' = frames /\ stream' # stream) =>
              LET n == Len(stream) - Len(stream')
                  left == Len(buffer[1]) - bufferOffset
              IN  /\ loopState' = "reading"
                  /\ ExitMsg \notin Range(handled')
                  /\ n < left =>
                         /\ handled' = handled
                         /\ bufferOffset' = bufferOffset + n
                  /\ n >= left =>
                         /\ handled' = Append(handled, frames[C28_Current])
                         /\ buffer' = <<>>
                         /\ (value' # <<>>) = (n > left)
     ]_vars

----------------------------------------------------------------------------
\* The sequence t without its k-th element.
C29_Without(t, k) == SubSeq(t, 1, k - 1) \o SubSeq(t, k + 1, Len(t))

\* The frames w are one heartbeat frame for each of the connections cs.
C29_OneEach(w, cs) ==
    /\ Len(w) = Cardinality(cs)
    /\ \A i \in 1..Len(w) : w[i].frame = HeartbeatMsg
    /\ \A c \in cs : \E i \in 1..Len(w) : w[i].to = c

\* The pending heartbeat waits t1 are those of t0 and one more, due 30s
\* from now.
C29_Scheduled(t0, t1) ==
    \E k \in 1..Len(t1) :
        /\ t1[k] = now + 30000
        /\ C29_Without(t1, k) = t0

(* C29: a run of the heartbeat loop, started by its wait resolving or by   *)
(* the GET that makes the connection count 1, writes one heartbeat frame   *)
(* to each connection that is in the map when it runs, and nothing else,   *)
(* and leaves one more wait pending, due 30s later; a run that finds no    *)
(* connection writes nothing and leaves no wait of its own.                *)
C29_HeartbeatBroadcast ==
    [][/\ event'.type = "heartbeat" =>
              IF DOMAIN clients = {}
              THEN /\ wrote' = <<>>
                   /\ timers'["heartbeat"] = Tail(timers["heartbeat"])
              ELSE /\ C29_OneEach(wrote', DOMAIN clients)
                   /\ C29_Scheduled(Tail(timers["heartbeat"]), timers'["heartbeat"])
       /\ (event'.type = "GET" /\ DOMAIN clients = {}) =>
              /\ Len(wrote') = 2
              /\ wrote'[1].frame.type = "ready"
              /\ C29_OneEach(Tail(wrote'), DOMAIN clients')
              /\ DOMAIN clients' = {event'.clientId}
              /\ C29_Scheduled(timers["heartbeat"], timers'["heartbeat"])
     ]_vars

\* The wait of the heartbeat loop has resolved with two connections in the
\* map: the run wrote a heartbeat frame to each and is scheduled again.
C29_Witness ==
    /\ event.type = "heartbeat"
    /\ Cardinality(DOMAIN clients) = 2
    /\ Len(wrote) = 2
    /\ wrote[1].to # wrote[2].to
    /\ timers["heartbeat"] # <<>>
    /\ now + 30000 \in Range(timers["heartbeat"])

----------------------------------------------------------------------------
(* C30: at any time at most one wait of the heartbeat loop and at most one *)
(* wait of the sweeper loop is pending in the session, whatever the        *)
(* sequence of connects and disconnects.                                   *)
C30_OneLoopOfEachKind ==
    \A n \in TimerNames : Len(timers[n]) <= 1

----------------------------------------------------------------------------
(* C31: the exit of a socket that connect() has replaced leaves the state  *)
(* of the proxy alone; hence, in every reachable state, a proxy that holds *)
(* a client id (from the ready frame of a connection) also holds a socket. *)
C31_ClientIdImpliesSocket ==
    clientId # "" => socket # <<>>

----------------------------------------------------------------------------
(* C32: every call id that is put in the message queue of the proxy is     *)
(* eventually posted to the endpoint in a call message, provided pending   *)
(* fetches settle and accepted connections get their ready frame, and      *)
(* without the application doing anything more.                            *)
C32_QueuedCallsSent ==
    \A id \in 0..MaxId :
        (id \in Range(messageQueue)) ~>
            (\E i \in 1..Len(postedCalls) : postedCalls[i].callId = id)

----------------------------------------------------------------------------
\* The HTTP responses sent for the POST that event ev records.
C33_Responses(ev) ==
    IF "status" \in DOMAIN ev THEN <<ev.status>> ELSE ev.responses

(* C33: the handling of a POST request sends exactly one HTTP response,    *)
(* whatever the body: a message of a connected client, a message of an     *)
(* unknown client, a message of an unknown type, a body that is not JSON.  *)
C33_OneResponse ==
    [][event'.type = "POST" => Len(C33_Responses(event')) = 1]_vars

----------------------------------------------------------------------------
(* C34: whenever a methodResult frame whose value is a proxy descriptor is *)
(* written to a connection, the descriptor's instance id is in the proxy   *)
(* list of that connection after the step, whether the method returned the *)
(* descriptor itself or a promise that resolved to it.                     *)
C34_ProxyOwnership ==
    [][\A i \in 1..Len(wrote') :
          (/\ wrote'[i].frame.type = "methodResult"
           /\ IsObjectOfType(wrote'[i].frame.value, "proxy")) =>
              /\ wrote'[i].to \in DOMAIN clients'
              /\ wrote'[i].frame.value.instance \in
                     Range(clients'[wrote'[i].to].proxies)
     ]_vars

----------------------------------------------------------------------------
\* The method name n is "<p>.<method>" for the proxy id p.
C35_MethodOf(n, p) == StartsWith(n, Numeral(p) \o <<".">>)

\* The ids in the proxy lists of the connections cs.
C35_ProxyIds(cs) == UNION {Range(cs[c].proxies) : c \in DOMAIN cs}

(* C35: the step in which removeClient removes connection A leaves every   *)
(* other connection's entry as it was, and keeps, with the same function,  *)
(* every plainly registered method and every method of a proxy id that is  *)
(* in the proxy list of a connection that is open after the step, also     *)
(* when that proxy id is in A's list as well.                              *)
C35_RemovalIsLocal ==
    [][(/\ event'.type = "POST"
        /\ event'.message.type = "exit"
        /\ event'.message.clientId \in DOMAIN clients) =>
           /\ DOMAIN clients' = DOMAIN clients \ {event'.message.clientId}
           /\ \A b \in DOMAIN clients' : clients'[b] = clients[b]
           /\ \A n \in DOMAIN methods :
                  (\/ \A p \in 0..sessionIdCounter : ~C35_MethodOf(n, p)
                   \/ \E p \in C35_ProxyIds(clients') : C35_MethodOf(n, p)) =>
                      /\ n \in DOMAIN methods'
                      /\ methods'[n] = methods[n]
     ]_vars

----------------------------------------------------------------------------
\* The callback map m without the handle id.
C36_Without(m, id) == [k \in DOMAIN m \ {id} |-> m[k]]

(* C36: a callback frame whose id has a handle invokes that handle's       *)
(* function once, with the frame's parameters (as processOutParameters     *)
(* hands them over), and removes the handle exactly when the function      *)
(* returned a truthy value; a callback frame whose id has no handle        *)
(* invokes nothing, changes nothing of the proxy and leaves the socket     *)
(* reading; a step that handles neither a callback frame nor an exit       *)
(* keeps every handle.                                                     *)
C36_CallbackLifetime ==
    [][/\ received'.type = "callback" =>
              IF received'.callback \in DOMAIN callbackMap
              THEN /\ Len(invoked') = 1
                   /\ invoked'[1].function = callbackMap[received'.callback]
                   /\ invoked'[1].parameters =
                          ProcessOutParameters(received'.parameters)
                   /\ callbackMap' =
                          (IF invoked'[1].returned
                           THEN C36_Without(callbackMap, received'.callback)
                           ELSE callbackMap)
              ELSE /\ invoked' = <<>>
                   /\ sent' = <<>>
                   /\ UNCHANGED <<idCounter, socket, socketState, clientId,
                                  callMap, callbackMap, callbacks, messageQueue,
                                  postedCalls, promises, localProxies>>
       /\ received'.type \notin {"callback", "exit"} =>
              \A id \in DOMAIN callbackMap :
                  /\ id \in DOMAIN callbackMap'
                  /\ callbackMap'[id] = callbackMap[id]
     ]_vars

\* The function of a handle has been invoked for a callback frame, has
\* returned a falsy value, and the handle is still in the map.
C36_Witness ==
    /\ received.type = "callback"
    /\ Len(invoked) = 1
    /\ ~invoked[1].returned
    /\ received.callback \in DOMAIN callbackMap
    /\ invoked[1].function = callbackMap[received.callback]

----------------------------------------------------------------------------
(* C37: when the body of start() begins to run on an enabled               *)
(* SequentialAction whose repeat is false and that has children, it starts *)
(* the first child added and waits for it (the other children follow in    *)
(* insertion order, each after the one before has finished).               *)
C37_RunsChildrenOnce ==
    [][(/\ sequential.pc = "scheduled"
        /\ sequential'.pc # "scheduled"
        /\ ~sequential.repeat
        /\ sequential.enabled
        /\ sequential.actions # <<>>) =>
           /\ sequential'.pc = "awaiting"
           /\ sequential'.started = <<sequential.actions[1]>>
           /\ children'[sequential.actions[1]].status = "running"
           /\ sequential'.finishCalls = 0
     ]_vars

----------------------------------------------------------------------------
(* C38: when the body of start() runs on an enabled ParallelAction, start() *)
(* is called on every enabled child and on no disabled one; finish() of    *)
(* the ParallelAction is called at most once, never while a started child  *)
(* has not finished, never on a destroyed action, and it is called when    *)
(* the last awaited promise resolves on an action that is not destroyed;   *)
(* when the status becomes "stopping", stop() is called on every child.    *)
C38_Started ==
    (parallel.pc = "scheduled" /\ parallel'.pc # "scheduled" /\ parallel.enabled) =>
        /\ Range(parallel'.started) =
               {c \in Range(parallel.actions) : children[c].enabled}
        /\ \A c \in Range(parallel'.started) : children'[c].status = "running"

C38_Finished ==
    /\ parallel'.finishCalls <= 1
    /\ parallel'.finishCalls = 1 =>
           \A c \in Range(parallel'.started) : children'[c].status = "idle"
    /\ parallel.destroyed => parallel'.finishCalls = parallel.finishCalls
    /\ (parallel.pc # "done" /\ parallel'.pc = "done" /\ ~parallel.destroyed) =>
           parallel'.finishCalls = 1

C38_Stopped ==
    (parallel.status # "stopping" /\ parallel'.status = "stopping") =>
        parallel'.stopCalls = parallel.stopCalls \o parallel.actions

C38_ParallelFinish == [][C38_Started /\ C38_Finished /\ C38_Stopped]_vars

\* Two children were added and one of them disabled; the other was started,
\* the action was stopped, and it finished after that child had.
C38_Witness ==
    /\ Len(parallel.actions) = 2
    /\ Len(parallel.started) = 1
    /\ parallel.stopCalls = parallel.actions
    /\ parallel.finishCalls = 1

----------------------------------------------------------------------------
(* C39: FileStorage calls filesystem.write only when ready is true, that   *)
(* is, only after a read of the file the storage now points at has         *)
(* completed, with success or with an error.                               *)
C39_WritesOnlyWhenRead ==
    \A i \in 1..Len(storage.written) :
        storage.written[i].ready /\ storage.written[i].loaded
====
